---- MODULE Spec2Model ----
(***************************************************************************)
(* Model of scripts/visual_judge.py: the response parsers                  *)
(* (parse_judge_result, parse_batch_judge_result) and the concurrent       *)
(* evaluation engine evaluate_dataset (task building, bounded dispatch     *)
(* through a thread pool, completion handling, result assembly).           *)
(*                                                                         *)
(* Texts are sequences of chunks: input texts are sequences of one-        *)
(* character strings, string literals of the program are one chunk each.   *)
(***************************************************************************)
EXTENDS Integers, Sequences, FiniteSets, TLC

\* ---------------------------------------------------------------- bounds
MaxItems == 3
MaxExpected == 3
MaxIndex == 3

\* raw[:500] in both parsers
UnparseableLimit == 500

\* def evaluate_dataset(data, eval_results_dir, *, ...): two positional parameters
PositionalParameters == 2

\* parallelism: int = 10
DefaultParallelism == 10

\* ------------------------------------------------------- Python values
\* A JSON value as json.loads returns it; "absent" stands for a missing key.
JInt(n) == [t |-> "int", n |-> n, s |-> <<>>]
JFloat(tenths) == [t |-> "float", n |-> tenths, s |-> <<>>]
JStr(s) == [t |-> "str", n |-> 0, s |-> s]
JBool(b) == [t |-> "bool", n |-> IF b THEN 1 ELSE 0, s |-> <<>>]
JNull == [t |-> "null", n |-> 0, s |-> <<>>]
Absent == [t |-> "absent", n |-> 0, s |-> <<>>]

\* dict.get(key, default)
Get(v, default) == IF v.t = "absent" THEN default ELSE v

Whitespace == {" ", "\n", "\t"}
DigitChars == <<"0", "1", "2", "3", "4", "5", "6", "7", "8", "9">>
IsDigit(c) == \E i \in 1..10 : DigitChars[i] = c
DigitVal(c) == (CHOOSE i \in 1..10 : DigitChars[i] = c) - 1

RECURSIVE LStrip(_)
LStrip(s) == IF s # <<>> /\ Head(s) \in Whitespace THEN LStrip(Tail(s)) ELSE s

RECURSIVE RStrip(_)
RStrip(s) ==
    IF s # <<>> /\ s[Len(s)] \in Whitespace
    THEN RStrip(SubSeq(s, 1, Len(s) - 1))
    ELSE s

\* str.strip()
Strip(s) == RStrip(LStrip(s))

\* s[:n]
Take(s, n) == IF Len(s) <= n THEN s ELSE SubSeq(s, 1, n)

RECURSIVE DigitsValue(_, _)
DigitsValue(s, acc) ==
    IF s = <<>> THEN acc ELSE DigitsValue(Tail(s), 10 * acc + DigitVal(Head(s)))

\* int(<str>): surrounding whitespace and one sign are accepted, then digits only
IntOfText(s) ==
    LET body == Strip(s)
        signed == body # <<>> /\ Head(body) \in {"-", "+"}
        digits == IF signed THEN Tail(body) ELSE body
    IN  IF digits # <<>> /\ \A i \in 1..Len(digits) : IsDigit(digits[i])
        THEN [ok |-> TRUE,
              n |-> IF signed /\ Head(body) = "-"
                    THEN 0 - DigitsValue(digits, 0)
                    ELSE DigitsValue(digits, 0)]
        ELSE [ok |-> FALSE, n |-> 0]

\* float -> int truncates toward zero (floats are carried in tenths)
Trunc(tenths) == IF tenths >= 0 THEN tenths \div 10 ELSE 0 - ((0 - tenths) \div 10)

\* int(value): ok = FALSE when Python raises ValueError/TypeError
PyInt(v) ==
    CASE v.t = "int" -> [ok |-> TRUE, n |-> v.n]
      [] v.t = "bool" -> [ok |-> TRUE, n |-> v.n]
      [] v.t = "float" -> [ok |-> TRUE, n |-> Trunc(v.n)]
      [] v.t = "str" -> IntOfText(v.s)
      [] OTHER -> [ok |-> FALSE, n |-> 0]

RECURSIVE NatText(_)
NatText(n) ==
    IF n < 10 THEN <<DigitChars[n + 1]>>
    ELSE NatText(n \div 10) \o <<DigitChars[(n % 10) + 1]>>

IntText(n) == IF n < 0 THEN <<"-">> \o NatText(0 - n) ELSE NatText(n)

\* str(value)
PyStr(v) ==
    CASE v.t = "str" -> v.s
      [] v.t = "int" -> IntText(v.n)
      [] v.t = "float" ->
            (IF v.n < 0 THEN <<"-">> ELSE <<>>)
            \o NatText((IF v.n < 0 THEN 0 - v.n ELSE v.n) \div 10) \o <<".">>
            \o NatText((IF v.n < 0 THEN 0 - v.n ELSE v.n) % 10)
      [] v.t = "bool" -> IF v.n = 1 THEN <<"True">> ELSE <<"False">>
      [] v.t = "null" -> <<"None">>
      [] OTHER -> <<>>

\* isinstance(value, int): bool is a subclass of int
IsInstanceInt(v) == v.t \in {"int", "bool"}

\* ------------------------------------------------------------- parsers
JudgeResult(score, rationale) == [score |-> score, rationale |-> rationale]

NoError == [some |-> FALSE, raw |-> <<>>]
ErrorOf(text) == [some |-> TRUE, raw |-> text]

\* What json.loads(repair_json(raw.strip())) makes of a response text: a list,
\* a dict, another JSON value ("scalar") or nothing at all ("fail": json.loads
\* raises on the empty string repair_json returns for hopeless input).
\* A dict carries the keys the parsers read: results (reskind says whether the
\* key is absent, a list, or a value that cannot be iterated), score, rationale.
Item(score, rationale, index) ==
    [dict |-> TRUE, score |-> score, rationale |-> rationale, index |-> index,
     val |-> Absent]
NonDictItem(v) ==
    [dict |-> FALSE, score |-> Absent, rationale |-> Absent, index |-> Absent,
     val |-> v]

DataFail == [kind |-> "fail", reskind |-> "absent", results |-> <<>>,
             score |-> Absent, rationale |-> Absent]
DataScalar == [kind |-> "scalar", reskind |-> "absent", results |-> <<>>,
               score |-> Absent, rationale |-> Absent]
DataList(items) == [kind |-> "list", reskind |-> "list", results |-> items,
                    score |-> Absent, rationale |-> Absent]
DataResults(items) == [kind |-> "dict", reskind |-> "list", results |-> items,
                       score |-> Absent, rationale |-> Absent]
DataBadResults == [kind |-> "dict", reskind |-> "noniter", results |-> <<>>,
                   score |-> Absent, rationale |-> Absent]
DataVerdict(score, rationale) ==
    [kind |-> "dict", reskind |-> "absent", results |-> <<>>,
     score |-> score, rationale |-> rationale]

Raw(text, data) == [text |-> text, data |-> data]

\* Exceptions the try blocks can see; all of them derive from Exception.
ExceptionClasses == {"JSONDecodeError", "AttributeError", "TypeError", "ValueError"}
ExceptExceptionCatchesNarrow(exc) == exc \in {"JSONDecodeError", "ValueError"}
ExceptExceptionCatches(exc) == exc \in ExceptionClasses

ClampScoreTruthy(value) ==
    LET r == PyInt(value)
        score == IF r.ok THEN r.n ELSE 0
    IN  IF score >= 1 THEN 1 ELSE 0
clamp_score(value) ==
    LET r == PyInt(value)
        score == IF r.ok THEN r.n ELSE 0
    IN  IF score = 1 THEN 1 ELSE 0

\* lines 144-149: the list of results, or the exception raised on the way
BatchResultsOf(data) ==
    CASE data.kind = "fail" -> [exc |-> "JSONDecodeError", results |-> <<>>]
      [] data.kind = "list" -> [exc |-> "none", results |-> data.results]
      [] data.kind = "scalar" -> [exc |-> "AttributeError", results |-> <<>>]
      [] data.kind = "dict" /\ data.reskind = "noniter" ->
            [exc |-> "TypeError", results |-> <<>>]
      [] OTHER -> [exc |-> "none", results |-> data.results]

\* lines 157-159: the JudgeResult made from one dict element
EntryOf(item) ==
    JudgeResult(clamp_score(Get(item.score, JInt(0))),
                Strip(PyStr(Get(item.rationale, JStr(<<>>)))))

\* indexed[key] = entry
DictPutKeepFirst(d, key, entry) ==
    [k \in DOMAIN d \cup {key} |-> IF k \in DOMAIN d THEN d[k] ELSE entry]
DictPut(d, key, entry) ==
    [k \in DOMAIN d \cup {key} |-> IF k = key THEN entry ELSE d[k]]

\* lines 153-164: one pass of the loop over results
ClassifyStepIndexAll(acc, item) ==
    IF ~item.dict
    THEN [acc EXCEPT !.ordered = Append(@, JudgeResult(0, PyStr(item.val)))]
    ELSE IF PyInt(item.index).ok
         THEN [acc EXCEPT !.indexed = DictPut(@, PyInt(item.index).n, EntryOf(item))]
         ELSE [acc EXCEPT !.ordered = Append(@, EntryOf(item))]
ClassifyStep(acc, item) ==
    IF ~item.dict
    THEN [acc EXCEPT !.ordered = Append(@, JudgeResult(0, PyStr(item.val)))]
    ELSE IF IsInstanceInt(item.index)
         THEN [acc EXCEPT !.indexed = DictPut(@, item.index.n, EntryOf(item))]
         ELSE [acc EXCEPT !.ordered = Append(@, EntryOf(item))]

RECURSIVE Classify(_, _)
Classify(results, acc) ==
    IF results = <<>> THEN acc
    ELSE Classify(Tail(results), ClassifyStep(acc, Head(results)))

MissingBatchResultBlank == JudgeResult(0, <<>>)
MissingBatchResult == JudgeResult(0, <<"Missing batch result.">>)

\* lines 166-173: positions position..expected, in order
RECURSIVE Reconcile(_, _, _, _)
ReconcilePopLast(position, expected, indexed, ordered) ==
    IF position > expected THEN <<>>
    ELSE IF position \in DOMAIN indexed
    THEN <<indexed[position]>> \o Reconcile(position + 1, expected, indexed, ordered)
    ELSE IF ordered # <<>>
    THEN <<ordered[Len(ordered)]>>
         \o Reconcile(position + 1, expected, indexed,
                      SubSeq(ordered, 1, Len(ordered) - 1))
    ELSE <<MissingBatchResult>> \o Reconcile(position + 1, expected, indexed, ordered)
ReconcileNoPadding(position, expected, indexed, ordered) ==
    IF position > expected THEN <<>>
    ELSE IF position \in DOMAIN indexed
    THEN <<indexed[position]>> \o Reconcile(position + 1, expected, indexed, ordered)
    ELSE IF ordered # <<>>
    THEN <<Head(ordered)>> \o Reconcile(position + 1, expected, indexed, Tail(ordered))
    ELSE Reconcile(position + 1, expected, indexed, ordered)
Reconcile(position, expected, indexed, ordered) ==
    IF position > expected THEN <<>>
    ELSE IF position \in DOMAIN indexed
    THEN <<indexed[position]>> \o Reconcile(position + 1, expected, indexed, ordered)
    ELSE IF ordered # <<>>
    THEN <<Head(ordered)>> \o Reconcile(position + 1, expected, indexed, Tail(ordered))
    ELSE <<MissingBatchResult>> \o Reconcile(position + 1, expected, indexed, ordered)

UnparseableFallbackWhole(raw) ==
    JudgeResult(0, <<"Unparseable response: ">> \o raw.text)
UnparseableFallback(raw) ==
    JudgeResult(0, <<"Unparseable response: ">> \o Take(raw.text, UnparseableLimit))

\* parse_batch_judge_result: raised names an exception that leaves the function
parse_batch_judge_result(raw, expected) ==
    LET got == BatchResultsOf(raw.data)
        acc == Classify(got.results, [indexed |-> <<>>, ordered |-> <<>>])
    IN  IF got.exc = "none"
        THEN [results |-> Reconcile(1, expected, acc.indexed, acc.ordered),
              error |-> NoError, raised |-> "none"]
        ELSE IF ExceptExceptionCatches(got.exc)
        THEN [results |-> [i \in 1..expected |-> UnparseableFallback(raw)],
              error |-> ErrorOf(raw.text), raised |-> "none"]
        ELSE [results |-> <<>>, error |-> NoError, raised |-> got.exc]

\* lines 127-129 of parse_judge_result: the exception raised, if any
VerdictExc(data) ==
    CASE data.kind = "fail" -> "JSONDecodeError"
      [] data.kind \in {"list", "scalar"} -> "AttributeError"
      [] ~PyInt(Get(data.score, JInt(0))).ok ->
            IF Get(data.score, JInt(0)).t = "str" THEN "ValueError" ELSE "TypeError"
      [] OTHER -> "none"

\* parse_judge_result
parse_judge_result(raw) ==
    LET exc == VerdictExc(raw.data)
        score == PyInt(Get(raw.data.score, JInt(0))).n
        rationale == Strip(PyStr(Get(raw.data.rationale, JStr(<<>>))))
    IN  IF exc = "none"
        THEN [result |-> JudgeResult(IF score = 1 THEN 1 ELSE 0, rationale),
              error |-> NoError, raised |-> "none"]
        ELSE IF ExceptExceptionCatches(exc)
        THEN [result |-> UnparseableFallback(raw), error |-> ErrorOf(raw.text),
              raised |-> "none"]
        ELSE [result |-> JudgeResult(0, <<>>), error |-> NoError, raised |-> exc]

\* ------------------------------------------------- responses under test
Chars(n) == [i \in 1..n |-> "x"]

\* unparseable texts: short prose, the empty text, one longer than the limit
ProseText == <<"S", "u", "r", "e">>
LongText == Chars(UnparseableLimit + 1)
FailRaws == {Raw(t, DataFail) : t \in {ProseText, <<>>, LongText}}

IndexVals ==
    {Absent, JBool(TRUE), JStr(<<"1">>)} \cup {JInt(i) : i \in 1..MaxIndex}

ScoreVals ==
    {JInt(0 - 1), JInt(0), JInt(1), JInt(2), JFloat(5), JFloat(15),
     JStr(<<"1">>), JStr(<<" ", "1">>), JStr(<<"x">>), JBool(TRUE), JNull, Absent}

RationaleVals == {JStr(<<"a">>), JStr(<<" ", "c", " ">>), JNull, Absent}

Items ==
    {Item(JInt(1), JStr(<<"a">>), i) : i \in IndexVals}
    \cup {Item(JInt(0), JStr(<<"b">>), i) : i \in {Absent, JInt(1)}}
    \cup {Item(sc, JStr(<<" ", "c", " ">>), Absent) :
            sc \in {JInt(0 - 1), JInt(2), JFloat(15), JStr(<<"x">>)}}
    \cup {NonDictItem(JStr(<<"n">>))}

ItemLists == UNION {[1..n -> Items] : n \in 0..MaxItems}

Raws ==
    FailRaws
    \cup {Raw(<<"5">>, DataScalar), Raw(<<"{", "}">>, DataBadResults)}
    \cup {Raw(<<"[", "]">>, DataList(l)) : l \in ItemLists}
    \cup {Raw(<<"{", "}">>, DataResults(l)) : l \in ItemLists}
    \cup {Raw(<<"{", "}">>, DataVerdict(sc, r)) : sc \in ScoreVals, r \in RationaleVals}

\* ---------------------------------------------------- input documents
MaxTurns == 2
MaxCriteria == 2
MaxTotalCriteria == 3
MaxParallelism == 2

JUDGE_MODEL == <<"gemini-3-flash-preview">>
EvalResultsDir == <<"eval-results">>

\* what image_loader does for a turn's path
LoadOutcomes == {"ok", "empty", "FileNotFoundError", "OSError", "Exception"}

CriterionText(k) == <<"c", DigitChars[k + 1]>>
CriteriaOf(n) == [k \in 1..n |-> CriterionText(k)]

\* a turn; the turns with a path all carry turnIndex 0, those without a path
\* carry none
NoTurnIndex == 0 - 1
Turn(n, png, load) ==
    [criteria |-> CriteriaOf(n), pngPath |-> png, load |-> load,
     turnIndex |-> IF png = <<>> THEN NoTurnIndex ELSE 0]

SomePath == <<".", "/", "a.png">>

\* turns whose image loads, with every criteria count; turns without a path;
\* turns whose image cannot be loaded, one for each way the loader can fail,
\* and one of them without criteria
TurnTypes ==
    {Turn(n, SomePath, "ok") : n \in 0..MaxCriteria}
    \cup {Turn(n, <<>>, "ok") : n \in {0, 1}}
    \cup {Turn(1, SomePath, l) : l \in LoadOutcomes \ {"ok"}}
    \cup {Turn(0, SomePath, "OSError")}

RECURSIVE SumLen(_)
SumLen(turns) ==
    IF turns = <<>> THEN 0 ELSE Len(Head(turns).criteria) + SumLen(Tail(turns))

TurnLists ==
    {l \in UNION {[1..n -> TurnTypes] : n \in 0..MaxTurns} :
        SumLen(l) <= MaxTotalCriteria}

Test(turns) == [fullName |-> <<"T">>, turns |-> turns]

\* a document: the turns of a list, split between two tests (either may be empty)
Documents ==
    UNION {{[tests |-> <<Test(SubSeq(l, 1, k)), Test(SubSeq(l, k + 1, Len(l)))>>] :
              k \in 0..Len(l)} : l \in TurnLists}

\* lines 221-225: total_criteria
RECURSIVE total_criteria(_)
total_criteria(raw_tests) ==
    IF raw_tests = <<>> THEN 0
    ELSE SumLen(Head(raw_tests).turns) + total_criteria(Tail(raw_tests))

\* ------------------------------------------------------------- state
VARIABLES
    praw,       \* the response text handed to a parser
    pexpected,  \* the expected criterion count handed to the batch parser
    ppc,        \* "ready", then "batch" or "single": which parser has run
    pout,       \* what the parser returned
    data,             \* evaluate_dataset's input document
    batch_criteria,   \* its batch_criteria argument
    parallelism,      \* its parallelism argument
    pc,               \* where the main thread is
    cursor,           \* <<test_idx, turn_idx>> of the build loop (0-based)
    tests,            \* the output tests built so far
    turns,            \* the copies of the current test's turns
    tasks,            \* the task list
    turn_results_map, \* key -> list of slots
    future,           \* task number -> state and result of its future
    submitted,        \* how many tasks the submit loop has submitted
    handled,          \* the tasks whose completion the main thread has processed
    parsing_errors,   \* the parsing-error log
    progress_done,    \* progress_state["done"]
    latency_count,    \* latency_stats.count
    calls,            \* task number -> how often its external call was invoked
    writes,           \* key -> how often each slot was assigned
    errors_file,      \* the side artifact: what was written to parsing_errors.json
    positional,       \* how many positional arguments evaluate_dataset was called with
    judge_fn,         \* its judge_fn argument
    model,            \* its model argument
    raised,           \* the exception that left evaluate_dataset, <<>> if none
    judge_model,      \* output["judge_model"], <<>> while the key is absent
    report_data,      \* the document handed to visual_report
    rpc,              \* "ready", then "metrics" or "html": which function has run
    metrics,          \* what compute_metrics returned
    html,             \* what render_html returned, as a sequence of pieces
    eval_data,        \* the document handed to visual_eval.evaluate_dataset
    eval_parallelism, \* its parallelism argument
    eval_pc,          \* where its main thread is
    eval_cursor,      \* <<test, turn>> of its loops (1-based)
    eval_idx,              \* the criterion index of evaluate_turn's current loop
    image_b64,        \* whether evaluate_turn has the turn's image
    immediate_results, \* evaluate_turn's immediate_results
    futures,          \* evaluate_turn's futures: idx -> number of the call
    eval_results,          \* evaluate_turn's results
    eval_turns,       \* the evaluated turns of the current test
    eval_tests,       \* the evaluated tests
    executor,         \* every call submitted to the executor, in order
    progress_state    \* progress_state["done"]

parseVars == <<praw, pexpected, ppc, pout>>
engineVars ==
    <<data, batch_criteria, parallelism, pc, cursor, tests, turns, tasks,
      turn_results_map, future, submitted, handled, parsing_errors,
      progress_done, latency_count, calls, writes, errors_file>>
callVars == <<positional, judge_fn, model, raised, judge_model>>
reportVars == <<report_data, rpc, metrics, html>>
evalVars ==
    <<eval_data, eval_parallelism, eval_pc, eval_cursor, eval_idx, image_b64,
      immediate_results, futures, eval_results, eval_turns, eval_tests, executor,
      progress_state>>
vars == <<parseVars, engineVars, callVars, reportVars, evalVars>>

NoOutput == [results |-> <<>>, error |-> NoError, raised |-> "none"]
None == [criterion |-> <<"None">>, score |-> 0 - 1, rationale |-> <<>>]
NotWritten == [written |-> FALSE, content |-> <<>>]

EngineIdle ==
    /\ data = [tests |-> <<>>]
    /\ batch_criteria = FALSE
    /\ parallelism = 1
    /\ pc = "idle"
    /\ cursor = <<0, 0>>
    /\ tests = <<>>
    /\ turns = <<>>
    /\ tasks = <<>>
    /\ turn_results_map = <<>>
    /\ future = <<>>
    /\ submitted = 0
    /\ handled = {}
    /\ parsing_errors = <<>>
    /\ progress_done = 0
    /\ latency_count = 0
    /\ calls = <<>>
    /\ writes = <<>>
    /\ errors_file = NotWritten
    /\ positional = PositionalParameters
    /\ judge_fn = "judge_with_gemini"
    /\ model = JUDGE_MODEL
    /\ raised = <<>>
    /\ judge_model = <<>>

NoMetrics ==
    [scenario_total |-> 0, scenario_success |-> 0, turn_total |-> 0,
     turn_success |-> 0, criteria_total |-> 0, criteria_success |-> 0]

ReportIdle ==
    /\ report_data = [tests |-> <<>>]
    /\ rpc = "idle"
    /\ metrics = NoMetrics
    /\ html = <<>>

EvalIdle ==
    /\ eval_data = <<>>
    /\ eval_parallelism = 1
    /\ eval_pc = "idle"
    /\ eval_cursor = <<1, 1>>
    /\ eval_idx = 1
    /\ image_b64 = FALSE
    /\ immediate_results = <<>>
    /\ futures = <<>>
    /\ eval_results = <<>>
    /\ eval_turns = <<>>
    /\ eval_tests = <<>>
    /\ executor = <<>>
    /\ progress_state = 0

ParserIdle ==
    /\ praw = Raw(<<>>, DataFail)
    /\ pexpected = 0
    /\ ppc = "idle"
    /\ pout = NoOutput

\* ------------------------------------------------------ task building
\* str.lstrip(chars)
RECURSIVE LStripChars(_, _)
LStripChars(s, chars) ==
    IF s # <<>> /\ Head(s) \in chars THEN LStripChars(Tail(s), chars) ELSE s

\* os.path.join(eval_results_dir, png_path.lstrip("./")), line 281
AbsolutePath(png_path) == EvalResultsDir \o <<"/">> \o LStripChars(png_path, {".", "/"})

\* str(exc) of the exception the loader raised
LoadExcText(load) == <<"[", load, "]">>

\* lines 280-294: image_error; the faulty variant drops the exception's text
ImageErrorNoExcText(turn) ==
    IF turn.pngPath = <<>> THEN <<>>
    ELSE CASE turn.load = "FileNotFoundError" ->
                <<"Missing image file: ">> \o AbsolutePath(turn.pngPath)
           [] turn.load = "OSError" ->
                <<"Failed to read image: ">> \o AbsolutePath(turn.pngPath)
           [] turn.load = "Exception" ->
                <<"Unexpected image load error: ">> \o AbsolutePath(turn.pngPath)
           [] OTHER -> <<>>
ImageError(turn) ==
    IF turn.pngPath = <<>> THEN <<>>
    ELSE CASE turn.load = "FileNotFoundError" ->
                <<"Missing image file: ">> \o AbsolutePath(turn.pngPath)
           [] turn.load = "OSError" ->
                <<"Failed to read image: ">> \o AbsolutePath(turn.pngPath)
                \o <<" (">> \o LoadExcText(turn.load) \o <<")">>
           [] turn.load = "Exception" ->
                <<"Unexpected image load error: ">> \o AbsolutePath(turn.pngPath)
                \o <<" (">> \o LoadExcText(turn.load) \o <<")">>
           [] OTHER -> <<>>

\* line 297: not png_path or not image_b64; the faulty variant tests the path only
NoImagePathOnly(turn) == turn.pngPath = <<>>
NoImage(turn) == turn.pngPath = <<>> \/ turn.load # "ok"

\* lines 302-307
NoImageRationale(turn) ==
    IF ImageError(turn) # <<>> THEN ImageError(turn)
    ELSE IF turn.pngPath = <<>> THEN <<"Missing PNG path.">>
    ELSE <<"Missing image data.">>

Entry(criterion, score, rationale) ==
    [criterion |-> criterion, score |-> score, rationale |-> rationale]

\* lines 298-308: the slots of a turn without image
NoImageResultsOnePerTurn(turn) == <<Entry(<<>>, 0, NoImageRationale(turn))>>
NoImageResults(turn) ==
    [k \in 1..Len(turn.criteria) |->
        Entry(turn.criteria[k], 0, NoImageRationale(turn))]

BatchTask(key, criteria) ==
    [key |-> key, batch |-> TRUE, criterion_index |-> 0, criterion |-> <<>>,
     criteria |-> criteria, criterion_count |-> Len(criteria)]
SingleTask(key, criteria, idx) ==
    [key |-> key, batch |-> FALSE, criterion_index |-> idx - 1,
     criterion |-> criteria[idx], criteria |-> <<>>,
     criterion_count |-> Len(criteria)]

\* lines 322-349: the tasks of a turn whose image loaded; the faulty variants
\* ignore the mode, or build a batch task for a turn without criteria
TasksOfTurnBatchAlways(key, criteria, batch) ==
    IF batch
    THEN <<BatchTask(key, criteria)>>
    ELSE [idx \in 1..Len(criteria) |-> SingleTask(key, criteria, idx)]
TasksOfTurnAlwaysSingle(key, criteria, batch) ==
    [idx \in 1..Len(criteria) |-> SingleTask(key, criteria, idx)]
TasksOfTurn(key, criteria, batch) ==
    IF batch /\ criteria # <<>>
    THEN <<BatchTask(key, criteria)>>
    ELSE [idx \in 1..Len(criteria) |-> SingleTask(key, criteria, idx)]

NoJudge == [set |-> FALSE, model |-> <<>>, criteria |-> <<>>]
\* {**turn}, lines 319 and 352: a new dict with the turn's fields; the faulty
\* variant appends the input's own dict
TurnCopyByReference(turn) == [turn |-> turn, judge |-> NoJudge, copy |-> FALSE]
TurnCopy(turn) == [turn |-> turn, judge |-> NoJudge, copy |-> TRUE]

MapPut(m, key, value) ==
    [k \in DOMAIN m \cup {key} |-> IF k = key THEN value ELSE m[k]]

\* a future; raw is the work item's local: the text the external call returned
NoRaw == Raw(<<>>, DataFail)
NewFuture ==
    [state |-> "new", raw |-> NoRaw, result |-> <<>>, error |-> NoError,
     exc |-> <<>>]

\* lines 309 and 325: the key of a turn is (test_idx, turn_idx), its position;
\* the faulty variant keys by the turn's turnIndex field
\* (turn.get("turnIndex") or 0)
TurnKeyByTurnIndex(position, turn) ==
    <<position[1], IF turn.turnIndex = NoTurnIndex THEN 0 ELSE turn.turnIndex>>
TurnKey(position, turn) == position

\* lines 274-352: one pass of the loop over the turns of a test
BuildTurn ==
    /\ pc = "build"
    /\ cursor[1] < Len(data.tests)
    /\ cursor[2] < Len(data.tests[cursor[1] + 1].turns)
    /\ LET turn == data.tests[cursor[1] + 1].turns[cursor[2] + 1]
           n == Len(turn.criteria)
           key == TurnKey(cursor, turn)
           new == TasksOfTurn(key, turn.criteria, batch_criteria)
       IN  /\ IF NoImage(turn)
              THEN /\ turn_results_map' =
                        MapPut(turn_results_map, key, NoImageResults(turn))
                   /\ writes' = MapPut(writes, key, [k \in 1..n |-> 1])
                   /\ progress_done' = progress_done + n
                   /\ UNCHANGED <<tasks, future, calls>>
              ELSE /\ turn_results_map' =
                        MapPut(turn_results_map, key, [k \in 1..n |-> None])
                   /\ writes' = MapPut(writes, key, [k \in 1..n |-> 0])
                   /\ tasks' = tasks \o new
                   /\ future' = future \o [i \in 1..Len(new) |-> NewFuture]
                   /\ calls' = calls \o [i \in 1..Len(new) |-> 0]
                   /\ UNCHANGED progress_done
           /\ turns' = Append(turns, TurnCopy(turn))
    /\ cursor' = <<cursor[1], cursor[2] + 1>>
    /\ UNCHANGED <<parseVars, reportVars, evalVars, callVars, data, batch_criteria, parallelism, pc, tests,
                   submitted, handled, parsing_errors, latency_count, errors_file>>

\* line 353: tests.append({**test, "turns": turns})
EndTest ==
    /\ pc = "build"
    /\ cursor[1] < Len(data.tests)
    /\ cursor[2] = Len(data.tests[cursor[1] + 1].turns)
    /\ tests' = Append(tests, [fullName |-> data.tests[cursor[1] + 1].fullName,
                               turns |-> turns])
    /\ turns' = <<>>
    /\ cursor' = <<cursor[1] + 1, 0>>
    /\ UNCHANGED <<parseVars, reportVars, evalVars, callVars, data, batch_criteria, parallelism, pc, tasks,
                   turn_results_map, future, submitted, handled, parsing_errors,
                   progress_done, latency_count, calls, writes, errors_file>>

\* lines 355-356: the executor is created only when there are tasks
EndBuild ==
    /\ pc = "build"
    /\ cursor[1] = Len(data.tests)
    /\ pc' = IF tasks # <<>> THEN "submit" ELSE "assemble"
    /\ UNCHANGED <<parseVars, reportVars, evalVars, callVars, data, batch_criteria, parallelism, cursor, tests,
                   turns, tasks, turn_results_map, future, submitted, handled,
                   parsing_errors, progress_done, latency_count, calls, writes,
                   errors_file>>

\* ---------------------------------------------------------- dispatch
\* What the external judging capability can do for a task: raise, or return a
\* text. The texts: prose, a verdict for one criterion, a complete indexed
\* list in criterion order, a list holding one element without index.
ExcTexts == {<<"boom">>}

\* the prose a task gets back names the task, as an echoing stub would
ProseFor(task) ==
    ProseText \o <<DigitChars[task.key[1] + 1], DigitChars[task.key[2] + 1],
                   DigitChars[task.criterion_index + 1]>>

VerdictRaws(task) ==
    {Raw(ProseFor(task), DataFail),
     Raw(<<"{", "}">>, DataVerdict(JInt(1), JStr(<<"a">>)))}

IndexedItems(n) ==
    [i \in 1..n |-> Item(JInt(1), JStr(<<"r", DigitChars[i + 1]>>), JInt(i))]

BatchRaws(task) ==
    {Raw(ProseFor(task), DataFail),
     Raw(<<"{", "}">>, DataResults(IndexedItems(task.criterion_count))),
     Raw(<<"{", "}">>, DataResults(<<Item(JInt(0), JStr(<<"b">>), Absent)>>))}

RawsFor(task) == IF task.batch THEN BatchRaws(task) ELSE VerdictRaws(task)

InFlight == {t \in 1..Len(future) : future[t].state \in {"inflight", "hung"}}
Pending == {t \in 1..Len(future) : future[t].state = "pending"}
Finished == {t \in 1..Len(future) : future[t].state \in {"succeeded", "failed"}}

\* lines 358-376: executor.submit for the next task, in list order
Submit ==
    /\ pc = "submit"
    /\ submitted < Len(tasks)
    /\ submitted' = submitted + 1
    /\ future' = [future EXCEPT ![submitted + 1].state = "pending"]
    /\ pc' = IF submitted + 1 = Len(tasks) THEN "collect" ELSE "submit"
    /\ UNCHANGED <<parseVars, reportVars, evalVars, callVars, data, batch_criteria, parallelism, cursor, tests,
                   turns, tasks, turn_results_map, handled, parsing_errors,
                   progress_done, latency_count, calls, writes, errors_file>>

\* ThreadPoolExecutor(max_workers=parallelism): a worker is free
WorkerFreeUnbounded == TRUE
WorkerFreeOffByOne == Cardinality(InFlight) + 1 < parallelism
WorkerFree == Cardinality(InFlight) < parallelism

\* A free worker takes the oldest queued work item and invokes the external
\* call (run_judge_call line 189, run_judge_batch_call line 201).
StartCall(t) ==
    /\ pc \in {"submit", "collect"}
    /\ future[t].state = "pending"
    /\ \A u \in Pending : t <= u
    /\ WorkerFree
    /\ future' = [future EXCEPT ![t].state = "inflight"]
    /\ calls' = [calls EXCEPT ![t] = @ + 1]
    /\ UNCHANGED <<parseVars, reportVars, evalVars, callVars, data, batch_criteria, parallelism, pc, cursor,
                   tests, turns, tasks, turn_results_map, submitted, handled,
                   parsing_errors, progress_done, latency_count, writes,
                   errors_file>>

\* run_judge_call / run_judge_batch_call after the call returned raw:
\* the future's result, or the exception the parser let through
WorkerResult(task, raw) ==
    IF task.batch
    THEN LET p == parse_batch_judge_result(raw, Len(task.criteria))
         IN  [state |-> IF p.raised = "none" THEN "succeeded" ELSE "failed",
              raw |-> raw, result |-> p.results, error |-> p.error,
              exc |-> IF p.raised = "none" THEN <<>> ELSE <<p.raised>>]
    ELSE LET p == parse_judge_result(raw)
         IN  [state |-> IF p.raised = "none" THEN "succeeded" ELSE "failed",
              raw |-> raw, result |-> <<p.result>>, error |-> p.error,
              exc |-> IF p.raised = "none" THEN <<>> ELSE <<p.raised>>]

\* lines 358-376, 189, 201: what the work item of a task calls: a batch work
\* item calls the provider itself, a single one calls judge_fn; the faulty
\* variant hands judge_fn to both
CalleeJudgeFnAlways(task) == judge_fn
Callee(task) == IF task.batch THEN "gemini_generate_content" ELSE judge_fn

\* the callees that reach the provider
ProviderCalls == {"gemini_generate_content", "judge_with_gemini"}

\* the external call of task t returns a text (run_judge_batch_call always
\* calls the provider; run_judge_call calls judge_fn, by default the provider).
\* The work item touches its locals and its future only; in the faulty
\* variant the worker thread records the latency sample itself.
CallReturnsRecordsLatency(t) ==
    /\ future[t].state = "inflight"
    /\ Callee(tasks[t]) \in ProviderCalls
    /\ \E raw \in RawsFor(tasks[t]) :
          future' = [future EXCEPT ![t] = WorkerResult(tasks[t], raw)]
    /\ latency_count' = latency_count + 1
    /\ UNCHANGED <<parseVars, reportVars, evalVars, callVars, data, batch_criteria, parallelism, pc,
                   cursor, tests, turns, tasks, turn_results_map, submitted,
                   handled, parsing_errors, progress_done, calls, writes,
                   errors_file>>
CallReturns(t) ==
    /\ future[t].state = "inflight"
    /\ Callee(tasks[t]) \in ProviderCalls
    /\ \E raw \in RawsFor(tasks[t]) :
          future' = [future EXCEPT ![t] = WorkerResult(tasks[t], raw)]
    /\ UNCHANGED <<parseVars, reportVars, evalVars, callVars, data, batch_criteria, parallelism, pc, cursor,
                   tests, turns, tasks, turn_results_map, submitted, handled,
                   parsing_errors, progress_done, latency_count, calls, writes,
                   errors_file>>

\* future.set_exception: the work item raised, the future is done; nothing
\* puts it back on the queue
RaisedFutureRequeued(exc) ==
    [state |-> "pending", raw |-> NoRaw, result |-> <<>>, error |-> NoError,
     exc |-> exc]
RaisedFuture(exc) ==
    [state |-> "failed", raw |-> NoRaw, result |-> <<>>, error |-> NoError,
     exc |-> exc]

\* the external call of task t raises
CallRaises(t) ==
    /\ future[t].state = "inflight"
    /\ Callee(tasks[t]) \in ProviderCalls
    /\ \E exc \in ExcTexts : future' = [future EXCEPT ![t] = RaisedFuture(exc)]
    /\ UNCHANGED <<parseVars, reportVars, evalVars, callVars, data, batch_criteria, parallelism, pc, cursor,
                   tests, turns, tasks, turn_results_map, submitted, handled,
                   parsing_errors, progress_done, latency_count, calls, writes,
                   errors_file>>

\* the external call of task t never returns: neither call site (lines 189,
\* 201) nor future.result() (line 380) sets a timeout, nothing cancels a
\* future. One call hangs at most.
CallHangs(t) ==
    /\ future[t].state = "inflight"
    /\ \A u \in 1..Len(future) : future[u].state # "hung"
    /\ future' = [future EXCEPT ![t].state = "hung"]
    /\ UNCHANGED <<parseVars, reportVars, evalVars, callVars, data, batch_criteria, parallelism, pc, cursor,
                   tests, turns, tasks, turn_results_map, submitted, handled,
                   parsing_errors, progress_done, latency_count, calls, writes,
                   errors_file>>

Min(a, b) == IF a < b THEN a ELSE b

\* lines 385-401: entries when future.result() returned
SuccessEntries(task, result) ==
    IF task.batch
    THEN [i \in 1..Min(Len(task.criteria), Len(result)) |->
            Entry(task.criteria[i], result[i].score, result[i].rationale)]
    ELSE <<Entry(task.criterion, result[1].score, result[1].rationale)>>

JudgeErrorRationale(exc) == <<"Unexpected judge error: ">> \o exc

\* lines 402-420: entries when future.result() raised
ErrorEntriesFirstOnly(task, exc) ==
    IF task.batch
    THEN <<Entry(task.criteria[1], 0, JudgeErrorRationale(exc))>>
    ELSE <<Entry(task.criterion, 0, JudgeErrorRationale(exc))>>
ErrorEntries(task, exc) ==
    IF task.batch
    THEN [i \in 1..Len(task.criteria) |->
            Entry(task.criteria[i], 0, JudgeErrorRationale(exc))]
    ELSE <<Entry(task.criterion, 0, JudgeErrorRationale(exc))>>

\* lines 377-420
EntriesOf(task, f) ==
    IF f.state = "succeeded" THEN SuccessEntries(task, f.result)
    ELSE ErrorEntries(task, f.exc)

\* lines 423-438: the positions of results_list a completion assigns, each
\* with the number of the entry it receives
TargetsAllOfTurn(task, entries, results_list) ==
    {<<k, 1>> : k \in 1..Len(results_list)}
TargetsFailureFillsTurn(task, entries, results_list) ==
    IF task.batch
    THEN {<<i, i>> : i \in {j \in 1..Len(entries) : j <= Len(results_list)}}
    ELSE IF Head(entries[1].rationale) = "Unexpected judge error: "
         THEN {<<k, 1>> : k \in 1..Len(results_list)}
         ELSE {<<task.criterion_index + 1, 1>>}
TargetsFirstUnset(task, entries, results_list) ==
    IF task.batch
    THEN {<<i, i>> : i \in {j \in 1..Len(entries) : j <= Len(results_list)}}
    ELSE IF \E k \in 1..Len(results_list) : results_list[k] = None
         THEN {<<CHOOSE k \in 1..Len(results_list) :
                    /\ results_list[k] = None
                    /\ \A j \in 1..(k - 1) : results_list[j] # None, 1>>}
         ELSE {}
Targets(task, entries, results_list) ==
    IF task.batch
    THEN {<<i, i>> : i \in {j \in 1..Len(entries) : j <= Len(results_list)}}
    ELSE IF results_list # <<>> /\ task.criterion_index < Len(results_list)
         THEN {<<task.criterion_index + 1, 1>>}
         ELSE {}

\* lines 424-447: how often progress_cb runs for a completion; the faulty
\* variant counts a completion once, whatever it covers
ProgressStepsPerTask(task, entries) == 1
ProgressSteps(task, entries) == IF task.batch THEN Len(entries) ELSE 1

\* results_list = turn_results_map.get(turn_key, []), line 422
ResultsList(map, key) == IF key \in DOMAIN map THEN map[key] ELSE <<>>

\* lines 421-438: the slot map after the completion of task t is processed
SlotsAfter(map, t) ==
    LET task == tasks[t]
        entries == EntriesOf(task, future[t])
        results_list == ResultsList(map, task.key)
        targets == Targets(task, entries, results_list)
    IN  IF targets = {} THEN map
        ELSE [map EXCEPT ![task.key] =
                [k \in 1..Len(results_list) |->
                    IF \E p \in targets : p[1] = k
                    THEN entries[(CHOOSE p \in targets : p[1] = k)[2]]
                    ELSE results_list[k]]]

\* the number of assignments to each slot after the same step
WritesAfter(t) ==
    LET task == tasks[t]
        entries == EntriesOf(task, future[t])
        results_list == ResultsList(turn_results_map, task.key)
        targets == Targets(task, entries, results_list)
    IN  IF targets = {} THEN writes
        ELSE [writes EXCEPT ![task.key] =
                [k \in 1..Len(results_list) |->
                    IF \E p \in targets : p[1] = k THEN @[k] + 1 ELSE @[k]]]

\* lines 380-384: what the completion of a future adds to parsing_errors;
\* the faulty variant logs once per outcome of the task
LoggedErrorsPerOutcome(f) ==
    IF f.state = "succeeded" /\ f.error.some
    THEN [i \in 1..Len(f.result) |-> f.error.raw] ELSE <<>>
LoggedErrors(f) ==
    IF f.state = "succeeded" /\ f.error.some THEN <<f.error.raw>> ELSE <<>>

\* lines 377-447: the main thread processes one completed future
HandleCompletion(t) ==
    /\ pc = "collect"
    /\ t \in Finished \ handled
    /\ turn_results_map' = SlotsAfter(turn_results_map, t)
    /\ writes' = WritesAfter(t)
    /\ latency_count' =
         IF future[t].state = "succeeded" THEN latency_count + 1 ELSE latency_count
    /\ parsing_errors' = parsing_errors \o LoggedErrors(future[t])
    /\ progress_done' =
         progress_done + ProgressSteps(tasks[t], EntriesOf(tasks[t], future[t]))
    /\ handled' = handled \cup {t}
    /\ UNCHANGED <<parseVars, reportVars, evalVars, callVars, data, batch_criteria, parallelism, pc, cursor,
                   tests, turns, tasks, future, submitted, calls, errors_file>>

\* line 377 ends: as_completed has yielded every future; the executor shuts
\* down. The faulty variant leaves the loop after the first completion.
EndCollectEarly ==
    /\ pc = "collect"
    /\ handled # {}
    /\ pc' = "assemble"
    /\ UNCHANGED <<parseVars, reportVars, evalVars, callVars, data, batch_criteria, parallelism, cursor,
                   tests, turns, tasks, turn_results_map, future, submitted,
                   handled, parsing_errors, progress_done, latency_count, calls,
                   writes, errors_file>>
EndCollect ==
    /\ pc = "collect"
    /\ handled = 1..Len(tasks)
    /\ pc' = "assemble"
    /\ UNCHANGED <<parseVars, reportVars, evalVars, callVars, data, batch_criteria, parallelism, cursor, tests,
                   turns, tasks, turn_results_map, future, submitted, handled,
                   parsing_errors, progress_done, latency_count, calls, writes,
                   errors_file>>

\* ------------------------------------------------------------ assembly
MissingJudgeResult == Entry(<<>>, 0, <<"Missing judge result.">>)

\* lines 451-463; the faulty variant leaves unset slots out
FinalizedSkipsUnset(results) == SelectSeq(results, LAMBDA r : r # None)
Finalized(results) ==
    [k \in 1..Len(results) |->
        IF results[k] = None THEN MissingJudgeResult ELSE results[k]]

\* line 464: the judge result of a turn; the faulty variant tags it with the
\* default model
JudgeOfDefaultModel(m, finalized) ==
    [set |-> TRUE, model |-> JUDGE_MODEL, criteria |-> finalized]
JudgeOf(m, finalized) == [set |-> TRUE, model |-> m, criteria |-> finalized]

\* line 464 assigns turn["judge"] on the dict the output list holds: the input
\* document as it is after the assembler has run over the output tests
InputAfter(d, out) ==
    [d EXCEPT !.tests =
        [ti \in 1..Len(d.tests) |->
            [d.tests[ti] EXCEPT !.turns =
                [ui \in 1..Len(d.tests[ti].turns) |->
                    IF out[ti].turns[ui].copy
                    THEN d.tests[ti].turns[ui]
                    ELSE [criteria |-> d.tests[ti].turns[ui].criteria,
                          pngPath |-> d.tests[ti].turns[ui].pngPath,
                          load |-> d.tests[ti].turns[ui].load,
                          turnIndex |-> d.tests[ti].turns[ui].turnIndex,
                          judge |-> out[ti].turns[ui].judge]]]]]

\* lines 449-467
Assemble ==
    /\ pc = "assemble"
    /\ tests' =
         [ti \in 1..Len(tests) |->
            [tests[ti] EXCEPT !.turns =
                [ui \in 1..Len(tests[ti].turns) |->
                    [tests[ti].turns[ui] EXCEPT !.judge =
                        JudgeOf(model,
                            Finalized(ResultsList(turn_results_map,
                                                  <<ti - 1, ui - 1>>)))]]]]
    /\ data' = InputAfter(data, tests')
    /\ judge_model' = model
    /\ pc' = "write"
    /\ UNCHANGED <<parseVars, reportVars, evalVars, positional, judge_fn, model, raised, batch_criteria,
                   parallelism, cursor, turns, tasks, turn_results_map, future,
                   submitted, handled, parsing_errors, progress_done,
                   latency_count, calls, writes, errors_file>>

\* lines 478-485: parsing_errors.json is written, evaluate_dataset returns;
\* the faulty variant writes the file only when there is something to report
WriteParsingErrorsIfAny ==
    /\ pc = "write"
    /\ errors_file' = IF parsing_errors # <<>>
                      THEN [written |-> TRUE, content |-> parsing_errors]
                      ELSE errors_file
    /\ pc' = "returned"
    /\ UNCHANGED <<parseVars, reportVars, evalVars, callVars, data, batch_criteria, parallelism, cursor, tests,
                   turns, tasks, turn_results_map, future, submitted, handled,
                   parsing_errors, progress_done, latency_count, calls, writes>>
WriteParsingErrors ==
    /\ pc = "write"
    /\ errors_file' = [written |-> TRUE, content |-> parsing_errors]
    /\ pc' = "returned"
    /\ UNCHANGED <<parseVars, reportVars, evalVars, callVars, data, batch_criteria, parallelism, cursor, tests,
                   turns, tasks, turn_results_map, future, submitted, handled,
                   parsing_errors, progress_done, latency_count, calls, writes>>

\* ------------------------------------------------------ specifications
Init ==
    /\ ParserIdle
    /\ ReportIdle
    /\ EvalIdle
    /\ data \in Documents
    /\ batch_criteria \in BOOLEAN
    /\ parallelism \in 1..MaxParallelism
    /\ pc = "build"
    /\ cursor = <<0, 0>>
    /\ tests = <<>>
    /\ turns = <<>>
    /\ tasks = <<>>
    /\ turn_results_map = <<>>
    /\ future = <<>>
    /\ submitted = 0
    /\ handled = {}
    /\ parsing_errors = <<>>
    /\ progress_done = 0
    /\ latency_count = 0
    /\ calls = <<>>
    /\ writes = <<>>
    /\ errors_file = NotWritten
    /\ positional = PositionalParameters
    /\ judge_fn = "judge_with_gemini"
    /\ model = JUDGE_MODEL
    /\ raised = <<>>
    /\ judge_model = <<>>

Worker == \E t \in 1..Len(tasks) : StartCall(t) \/ CallReturns(t) \/ CallRaises(t)
Collector == \E t \in 1..Len(tasks) : HandleCompletion(t)

Next ==
    \/ BuildTurn
    \/ EndTest
    \/ EndBuild
    \/ Submit
    \/ Worker
    \/ Collector
    \/ EndCollect
    \/ Assemble
    \/ WriteParsingErrors

Spec == Init /\ [][Next]_vars

MainThread ==
    \/ BuildTurn
    \/ EndTest
    \/ EndBuild
    \/ Submit
    \/ Collector
    \/ EndCollect
    \/ Assemble
    \/ WriteParsingErrors

\* The main thread keeps running, a free worker thread takes the next queued
\* work item, and every external call eventually returns or raises.
FairSpec ==
    /\ Spec
    /\ WF_vars(MainThread)
    /\ WF_vars(\E t \in 1..Len(tasks) : StartCall(t))
    /\ WF_vars(\E t \in 1..Len(tasks) : CallReturns(t) \/ CallRaises(t))

\* Runs in which one external call may hang.
Hang == \E t \in 1..Len(tasks) : CallHangs(t)

NextHung ==
    \/ BuildTurn
    \/ EndTest
    \/ EndBuild
    \/ Submit
    \/ Worker
    \/ Hang
    \/ Collector
    \/ EndCollect
    \/ Assemble
    \/ WriteParsingErrors

SpecHung == Init /\ [][NextHung]_vars

\* The main thread keeps running, a free worker thread takes the next queued
\* work item, and every external call that does not hang returns or raises.
FairHung ==
    /\ SpecHung
    /\ WF_vars(MainThread)
    /\ WF_vars(\E t \in 1..Len(tasks) : StartCall(t))
    /\ WF_vars(\E t \in 1..Len(tasks) : CallReturns(t) \/ CallRaises(t))

InitParse ==
    /\ praw \in Raws
    /\ pexpected \in 0..MaxExpected
    /\ ppc = "ready"
    /\ pout = NoOutput
    /\ EngineIdle
    /\ ReportIdle
    /\ EvalIdle

ParseBatch ==
    /\ ppc = "ready"
    /\ ppc' = "batch"
    /\ pout' = parse_batch_judge_result(praw, pexpected)
    /\ UNCHANGED <<praw, pexpected, engineVars, callVars, reportVars, evalVars>>

ParseSingle ==
    /\ ppc = "ready"
    /\ ppc' = "single"
    /\ pout' = LET r == parse_judge_result(praw)
               IN  [results |-> <<r.result>>, error |-> r.error, raised |-> r.raised]
    /\ UNCHANGED <<praw, pexpected, engineVars, callVars, reportVars, evalVars>>

NextParse == ParseBatch \/ ParseSingle

SpecParse == InitParse /\ [][NextParse]_vars

\* ------------------------------------------- the assembler on its own
\* The assembler (lines 449-467) run on one test with one turn, over every
\* slot list up to MaxSlots, unset slots included, and over a map without the
\* turn's key.
MaxSlots == 3

SlotValues ==
    {None,
     Entry(CriterionText(1), 1, <<"a">>),
     Entry(CriterionText(1), 0, <<"Judge error: ">> \o <<"boom">>)}
SlotLists == UNION {[1..n -> SlotValues] : n \in 0..MaxSlots}

InitAssembler ==
    /\ ParserIdle
    /\ ReportIdle
    /\ EvalIdle
    /\ \E slots \in SlotLists : \E keyed \in BOOLEAN :
          /\ keyed \/ slots = <<>>
          /\ data = [tests |-> <<Test(<<Turn(Len(slots), SomePath, "ok")>>)>>]
          /\ turn_results_map = IF keyed THEN MapPut(<<>>, <<0, 0>>, slots) ELSE <<>>
          /\ writes = IF keyed THEN MapPut(<<>>, <<0, 0>>, [k \in 1..Len(slots) |-> 0])
                      ELSE <<>>
    /\ tests = <<[fullName |-> data.tests[1].fullName,
                  turns |-> <<TurnCopy(data.tests[1].turns[1])>>]>>
    /\ batch_criteria = FALSE
    /\ parallelism = DefaultParallelism
    /\ pc = "assemble"
    /\ cursor = <<1, 0>>
    /\ turns = <<>>
    /\ tasks = <<>>
    /\ future = <<>>
    /\ submitted = 0
    /\ handled = {}
    /\ parsing_errors = <<>>
    /\ progress_done = 0
    /\ latency_count = 0
    /\ calls = <<>>
    /\ errors_file = NotWritten
    /\ positional = PositionalParameters
    /\ judge_fn = "judge_with_gemini"
    /\ model = JUDGE_MODEL
    /\ raised = <<>>
    /\ judge_model = <<>>

NextAssembler == Assemble \/ WriteParsingErrors

SpecAssembler == InitAssembler /\ [][NextAssembler]_vars

\* ---------------------------------------- the call made by the unit test
\* tests/test_visual_eval.py calls evaluate_dataset(data, "stub-model",
\* "eval-results", judge_fn=stub_judge, image_loader=lambda _: "fake"): three
\* positional arguments, a judge_fn that returns a bare JudgeResult, an image
\* loader that succeeds, the defaults for parallelism and batch_criteria.
\* Beside it stand the call with two positional arguments (the model passed
\* by keyword) and a judge_fn that returns the pair run_judge_call unpacks.
JudgeFns == {"stub_bare", "stub_tuple"}

\* the model the call names: the test's "stub-model", or none (the default)
Models == {JUDGE_MODEL, <<"stub-model">>}

\* what the stub judge decides: JudgeResult(score=1, rationale="ok")
StubVerdict == JudgeResult(1, <<"ok">>)

\* Python's argument binding for def evaluate_dataset(data, eval_results_dir, *, ...)
BindingError(n) ==
    IF n > PositionalParameters
    THEN <<"evaluate_dataset() takes 2 positional arguments but ">>
         \o NatText(n)
         \o <<" positional arguments (and 2 keyword-only arguments) were given">>
    ELSE <<>>

\* the call itself: the arguments are bound before the body runs
BindArguments ==
    /\ pc = "call"
    /\ raised' = BindingError(positional)
    /\ pc' = IF BindingError(positional) # <<>> THEN "raised" ELSE "build"
    /\ UNCHANGED <<parseVars, reportVars, evalVars, data, batch_criteria, parallelism, cursor, tests,
                   turns, tasks, turn_results_map, future, submitted, handled,
                   parsing_errors, progress_done, latency_count, calls, writes,
                   errors_file, positional, judge_fn, model, judge_model>>

\* run_judge_call line 189: result, parse_error = judge_fn(...); a dataclass
\* instance cannot be unpacked
StubFuture(fn) ==
    IF fn = "stub_tuple"
    THEN [state |-> "succeeded", raw |-> NoRaw, result |-> <<StubVerdict>>,
          error |-> NoError, exc |-> <<>>]
    ELSE RaisedFuture(<<"cannot unpack non-iterable JudgeResult object">>)

\* the work item of single task t calls the stub judge_fn
StubReturns(t) ==
    /\ future[t].state = "inflight"
    /\ Callee(tasks[t]) \in JudgeFns
    /\ future' = [future EXCEPT ![t] = StubFuture(judge_fn)]
    /\ UNCHANGED <<parseVars, reportVars, evalVars, callVars, data, batch_criteria, parallelism, pc,
                   cursor, tests, turns, tasks, turn_results_map, submitted,
                   handled, parsing_errors, progress_done, latency_count, calls,
                   writes, errors_file>>

\* documents all of whose images load
LoadableDocuments ==
    {d \in Documents :
        \A ti \in 1..Len(d.tests) : \A ui \in 1..Len(d.tests[ti].turns) :
            /\ d.tests[ti].turns[ui].pngPath # <<>>
            /\ d.tests[ti].turns[ui].load = "ok"}

InitTest ==
    /\ ParserIdle
    /\ ReportIdle
    /\ EvalIdle
    /\ data \in LoadableDocuments
    /\ batch_criteria = FALSE
    /\ parallelism = DefaultParallelism
    /\ pc = "call"
    /\ cursor = <<0, 0>>
    /\ tests = <<>>
    /\ turns = <<>>
    /\ tasks = <<>>
    /\ turn_results_map = <<>>
    /\ future = <<>>
    /\ submitted = 0
    /\ handled = {}
    /\ parsing_errors = <<>>
    /\ progress_done = 0
    /\ latency_count = 0
    /\ calls = <<>>
    /\ writes = <<>>
    /\ errors_file = NotWritten
    /\ positional \in {PositionalParameters, PositionalParameters + 1}
    /\ judge_fn \in JudgeFns
    /\ model \in Models
    /\ raised = <<>>
    /\ judge_model = <<>>

StubWorker == \E t \in 1..Len(tasks) : StartCall(t) \/ StubReturns(t)

NextTest ==
    \/ BindArguments
    \/ BuildTurn
    \/ EndTest
    \/ EndBuild
    \/ Submit
    \/ StubWorker
    \/ Collector
    \/ EndCollect
    \/ Assemble
    \/ WriteParsingErrors

SpecTest == InitTest /\ [][NextTest]_vars

\* ------------------------------------------------------ visual_report
\* float(value), in tenths
ToFloat(v) ==
    CASE v.t = "float" -> v.n
      [] v.t \in {"int", "bool"} -> 10 * v.n
      [] OTHER -> 0

\* a criterion result of a judged turn
Result(criterion, score, summary_score) ==
    [criterion |-> criterion, score |-> score, summary_score |-> summary_score]

\* get_criterion_score, in tenths
get_criterion_score(result) ==
    IF result.summary_score # Absent
    THEN ToFloat(result.summary_score)
    ELSE ToFloat(Get(result.score, JInt(0)))

\* turn.get("judge", {}).get("criteria", [])
JudgeCriteria(turn) == IF turn.judge.present THEN turn.judge.criteria ELSE <<>>

\* lines 33-39: the scenario a test counts for
ScenarioOf(test) ==
    IF test.hierarchy # <<>> THEN test.hierarchy[1]
    ELSE IF test.fullName # "" THEN test.fullName
    ELSE "Unknown scenario"

\* lines 49-55: every score of a judged turn is at least 1.0
turn_ok(judge_criteria) ==
    \A k \in 1..Len(judge_criteria) : ~(get_criterion_score(judge_criteria[k]) < 10)

\* lines 43-59: the turn adds to turn_success; the faulty variant does not
\* count a turn without criteria
TurnSucceedsOnlyJudged(judge_criteria) ==
    judge_criteria # <<>> /\ turn_ok(judge_criteria)
TurnSucceeds(judge_criteria) ==
    IF judge_criteria = <<>> THEN TRUE ELSE turn_ok(judge_criteria)

\* test_all_ok after the loop over the turns: a turn without criteria leaves
\* it alone
RECURSIVE test_all_ok(_)
test_all_ok(turns_) ==
    IF turns_ = <<>> THEN TRUE
    ELSE /\ JudgeCriteria(Head(turns_)) = <<>> \/ turn_ok(JudgeCriteria(Head(turns_)))
         /\ test_all_ok(Tail(turns_))

RECURSIVE CountSucceeding(_)
CountSucceeding(turns_) ==
    IF turns_ = <<>> THEN 0
    ELSE (IF TurnSucceeds(JudgeCriteria(Head(turns_))) THEN 1 ELSE 0)
         + CountSucceeding(Tail(turns_))

RECURSIVE SumScores(_)
SumScores(judge_criteria) ==
    IF judge_criteria = <<>> THEN 0
    ELSE get_criterion_score(Head(judge_criteria)) + SumScores(Tail(judge_criteria))

RECURSIVE CriteriaCount(_)
CriteriaCount(turns_) ==
    IF turns_ = <<>> THEN 0
    ELSE Len(JudgeCriteria(Head(turns_))) + CriteriaCount(Tail(turns_))

RECURSIVE CriteriaScore(_)
CriteriaScore(turns_) ==
    IF turns_ = <<>> THEN 0
    ELSE SumScores(JudgeCriteria(Head(turns_))) + CriteriaScore(Tail(turns_))

\* lines 61-65: a test is added to its scenario's counts; the faulty variant
\* lets a test without turns count as a success
ScenarioSuccessVacuous(test) == test_all_ok(test.turns)
ScenarioSuccess(test) == test.turns # <<>> /\ test_all_ok(test.turns)

\* lines 33-65: one pass of the loop over the tests
MetricsStep(acc, test) ==
    LET scenario == ScenarioOf(test)
        old == IF scenario \in DOMAIN acc.scenario_totals
               THEN acc.scenario_totals[scenario]
               ELSE [total |-> 0, success |-> 0]
        new == [total |-> old.total + 1,
                success |-> old.success + (IF ScenarioSuccess(test) THEN 1 ELSE 0)]
    IN  [scenario_totals |->
            [n \in DOMAIN acc.scenario_totals \cup {scenario} |->
                IF n = scenario THEN new ELSE acc.scenario_totals[n]],
         turn_total |-> acc.turn_total + Len(test.turns),
         turn_success |-> acc.turn_success + CountSucceeding(test.turns),
         criteria_total |-> acc.criteria_total + CriteriaCount(test.turns),
         criteria_success |-> acc.criteria_success + CriteriaScore(test.turns)]

RECURSIVE MetricsLoop(_, _)
MetricsLoop(tests_, acc) ==
    IF tests_ = <<>> THEN acc
    ELSE MetricsLoop(Tail(tests_), MetricsStep(acc, Head(tests_)))

\* compute_metrics; criteria_success in tenths
compute_metrics(d) ==
    LET acc == MetricsLoop(d.tests,
                   [scenario_totals |-> <<>>, turn_total |-> 0, turn_success |-> 0,
                    criteria_total |-> 0, criteria_success |-> 0])
    IN  [scenario_total |-> Cardinality(DOMAIN acc.scenario_totals),
         scenario_success |->
            Cardinality({n \in DOMAIN acc.scenario_totals :
                            /\ acc.scenario_totals[n].success = acc.scenario_totals[n].total
                            /\ acc.scenario_totals[n].total > 0}),
         turn_total |-> acc.turn_total,
         turn_success |-> acc.turn_success,
         criteria_total |-> acc.criteria_total,
         criteria_success |-> acc.criteria_success]

\* esc, piece by piece
EscPiece(c) ==
    CASE c = "&" -> "&amp;"
      [] c = "<" -> "&lt;"
      [] c = ">" -> "&gt;"
      [] c = "\"" -> "&quot;"
      [] c = "'" -> "&#39;"
      [] OTHER -> c
esc(text) == [i \in 1..Len(text) |-> EscPiece(text[i])]

\* the files under the directory the report is rendered in
ExistingFiles == {<<"eval-results", "/", "a.png">>}
MissingPath == <<".", "/", "m", "&", ".png">>

\* line 185: os.path.join("eval-results", png_path.lstrip("./")); the faulty
\* variant joins the path as it stands
ReportCandidateUnstripped(png_path) == <<"eval-results", "/">> \o png_path
ReportCandidate(png_path) ==
    <<"eval-results", "/">> \o LStripChars(png_path, {".", "/"})

\* lines 183-187: what a turn adds to missing_images
MissingOf(turn) ==
    IF turn.pngPath # <<>> /\ ReportCandidate(turn.pngPath) \notin ExistingFiles
    THEN <<turn.pngPath>> ELSE <<>>

RECURSIVE MissingOfTurns(_)
MissingOfTurns(turns_) ==
    IF turns_ = <<>> THEN <<>>
    ELSE MissingOf(Head(turns_)) \o MissingOfTurns(Tail(turns_))

RECURSIVE missing_images(_)
missing_images(tests_) ==
    IF tests_ = <<>> THEN <<>>
    ELSE MissingOfTurns(Head(tests_).turns) \o missing_images(Tail(tests_))

\* lines 132-139
StatusOf(score) ==
    IF score >= 10 THEN "pass" ELSE IF score > 0 THEN "partial" ELSE "fail"

\* lines 144-147: f"{score:.2f}" for a summary score, str(int(score)) otherwise
ScoreDisplay(result) ==
    LET score == get_criterion_score(result)
    IN  IF result.summary_score # Absent
        THEN NatText(score \div 10) \o <<".", DigitChars[(score % 10) + 1], "0">>
        ELSE IntText(Trunc(score))

NoCriteriaMarker == "<div class='no-criteria'>No criteria defined for this turn.</div>"

\* lines 152-161: the block of one criterion result
CriterionHtml(result) ==
    <<"<div class='criterion ", StatusOf(get_criterion_score(result)), "'>",
      "<div class='criterion-text'>">> \o esc(result.criterion)
    \o <<"</div>", "<div class='criterion-score'>Score: ">> \o ScoreDisplay(result)
    \o <<"</div>", "</div>">>

RECURSIVE CriteriaBlocks(_)
CriteriaBlocks(judge_criteria) ==
    IF judge_criteria = <<>> THEN <<>>
    ELSE CriterionHtml(Head(judge_criteria)) \o CriteriaBlocks(Tail(judge_criteria))

\* lines 125-161: criteria_html; the faulty variant leaves a turn without
\* criteria blank
CriteriaHtmlBlank(judge_criteria) == CriteriaBlocks(judge_criteria)
CriteriaHtml(judge_criteria) ==
    IF judge_criteria = <<>> THEN <<NoCriteriaMarker>>
    ELSE CriteriaBlocks(judge_criteria)

TurnOpen == "<div class=\"turn\">"
TestOpen == "<details class=\"test-card\">"

\* lines 188-212: the block of one turn
TurnBlock(turn) ==
    <<TurnOpen, "<div class=\"turn-header\">Turn ">> \o turn.turnIndex
    \o <<"</div>", "<img src=\"">> \o esc(turn.pngPath) \o <<"\">">>
    \o <<"<div class=\"turn-criteria\">">> \o CriteriaHtml(JudgeCriteria(turn))
    \o <<"</div>", "</div>">>

RECURSIVE TurnBlocks(_)
TurnBlocks(turns_) ==
    IF turns_ = <<>> THEN <<>>
    ELSE TurnBlock(Head(turns_)) \o TurnBlocks(Tail(turns_))

\* test_has_error: some criterion of the test is not a pass
test_has_error(test) ==
    \E ui \in 1..Len(test.turns) :
        \E k \in 1..Len(JudgeCriteria(test.turns[ui])) :
            StatusOf(get_criterion_score(JudgeCriteria(test.turns[ui])[k])) # "pass"

\* lines 214-227: the card of one test
TestCard(test) ==
    <<TestOpen, "<summary>", test.fullName>>
    \o (IF test_has_error(test)
        THEN <<"<span class='test-badge test-badge-error'>Error</span>">> ELSE <<>>)
    \o <<"</summary>">> \o TurnBlocks(test.turns) \o <<"</details>">>

RECURSIVE Rows(_)
Rows(tests_) ==
    IF tests_ = <<>> THEN <<>> ELSE TestCard(Head(tests_)) \o Rows(Tail(tests_))

MissingOpen == "<div class='missing-section'><strong>Missing images:</strong><ul>"

RECURSIVE MissingItems(_)
MissingItems(paths) ==
    IF paths = <<>> THEN <<>>
    ELSE <<"<li>">> \o esc(Head(paths)) \o <<"</li>">> \o MissingItems(Tail(paths))

\* line 328: the section is rendered when missing_images is not empty; the
\* faulty variant always renders it
MissingSectionAlways(paths) == <<MissingOpen>> \o MissingItems(paths) \o <<"</ul></div>">>
MissingSection(paths) ==
    IF paths # <<>>
    THEN <<MissingOpen>> \o MissingItems(paths) \o <<"</ul></div>">>
    ELSE <<>>

\* lines 320-323: the three rates of the summary
MetricsHtml(m) ==
    <<"Scenario success rate: ">> \o NatText(m.scenario_success)
    \o <<"/">> \o NatText(m.scenario_total)
    \o <<"Turn success rate: ">> \o NatText(m.turn_success)
    \o <<"/">> \o NatText(m.turn_total)
    \o <<"Criteria success rate: ">> \o NatText(m.criteria_success \div 10)
    \o <<".", DigitChars[(m.criteria_success % 10) + 1]>>
    \o <<"/">> \o NatText(m.criteria_total)

\* render_html
render_html(d) ==
    <<"<html>">> \o MetricsHtml(compute_metrics(d))
    \o MissingSection(missing_images(d.tests)) \o Rows(d.tests) \o <<"</html>">>

\* the documents handed to the report
MaxJudged == 2
MaxReportTurns == 2

PassResult == Result(<<"A exists">>, JInt(1), Absent)
ListedResults == {PassResult, Result(<<"B <exists>">>, JInt(0), Absent)}
TwoResult == Result(<<"C">>, JInt(2), Absent)
HalfResult == Result(<<"D">>, JInt(1), JFloat(5))

Judged(criteria) == [present |-> TRUE, criteria |-> criteria]
Unjudged == [present |-> FALSE, criteria |-> <<>>]

ReportTurn(judge, png) == [turnIndex |-> <<"0">>, pngPath |-> png, judge |-> judge]

ReportTurnTypes ==
    {ReportTurn(Judged(l), <<>>) :
        l \in UNION {[1..n -> ListedResults] : n \in 0..MaxJudged}}
    \cup {ReportTurn(Judged(<<HalfResult>>), <<>>),
          ReportTurn(Judged(<<TwoResult>>), <<>>), ReportTurn(Unjudged, <<>>)}
    \cup {ReportTurn(Judged(l), png) :
            l \in {<<>>, <<PassResult>>}, png \in {SomePath, MissingPath}}
    \cup {ReportTurn(Unjudged, SomePath)}

\* the turns of a document: at most MaxJudged criterion results in all
ReportTurnLists ==
    {l \in UNION {[1..n -> ReportTurnTypes] : n \in 0..MaxReportTurns} :
        CriteriaCount(l) <= MaxJudged}

ReportTest(hierarchy, fullName, turns_) ==
    [hierarchy |-> hierarchy, fullName |-> fullName, turns |-> turns_]

\* a second test of the same scenario as the first, of another, of none
SecondTests(turns_) ==
    {ReportTest(<<"A">>, "B", turns_), ReportTest(<<>>, "B", turns_),
     ReportTest(<<>>, "", turns_)}

ReportDocuments ==
    UNION {UNION {{[tests |-> <<ReportTest(<<>>, "A", SubSeq(l, 1, k)), second>>] :
                      second \in SecondTests(SubSeq(l, k + 1, Len(l)))} :
                  k \in 0..Len(l)} : l \in ReportTurnLists}

InitReport ==
    /\ ParserIdle
    /\ EngineIdle
    /\ EvalIdle
    /\ report_data \in ReportDocuments
    /\ rpc = "ready"
    /\ metrics = NoMetrics
    /\ html = <<>>

\* main, line 350
ComputeMetrics ==
    /\ rpc = "ready"
    /\ rpc' = "metrics"
    /\ metrics' = compute_metrics(report_data)
    /\ UNCHANGED <<parseVars, engineVars, callVars, evalVars, report_data, html>>

\* main, line 351
RenderHtml ==
    /\ rpc = "ready"
    /\ rpc' = "html"
    /\ html' = render_html(report_data)
    /\ UNCHANGED <<parseVars, engineVars, callVars, evalVars, report_data, metrics>>

NextReport == ComputeMetrics \/ RenderHtml

SpecReport == InitReport /\ [][NextReport]_vars

\* ------------------------------------------------------ visual_eval.py
\* evaluate_dataset, lines 282-355, with evaluate_turn, lines 147-279, as it
\* is called there: with the executor, the semaphore and the progress callback.

MaxEvalTurns == 2
MaxEvalCriteria == 2
MaxEvalTotal == 3

\* main, line 377: the judge model named on the command line
EvalModel == "judge-model"

\* what judge_fn may return (a JudgeResult, lines 22-25)
Verdicts == {[score |-> 1, rationale |-> "yes"], [score |-> 0, rationale |-> "no"]}
NoVerdict == [score |-> 0, rationale |-> ""]

\* line 236: a call handed to the executor, for criterion k of the turn at pos
Call(pos, k) ==
    [pos |-> pos, idx |-> k, state |-> "queued", result |-> NoVerdict, done_at |-> 0]

\* a turn of the input: its criteria, and what becomes of its image: "nopath"
\* (no pngPath), "missing" (the loader raises FileNotFoundError), "loads"
EvalTurn(n, image) ==
    [criteria |-> [k \in 1..n |-> <<"criterion", k>>], image |-> image]

EvalTurnTypes ==
    {EvalTurn(n, "loads") : n \in 0..MaxEvalCriteria}
        \cup {EvalTurn(1, "nopath"), EvalTurn(1, "missing")}

EvalTurnLists ==
    UNION {[1..n -> EvalTurnTypes] : n \in 0..MaxEvalTurns}

EvalTest(turns_) == [turns |-> turns_]

RECURSIVE EvalCriteriaCount(_)
EvalCriteriaCount(l) ==
    IF l = <<>> THEN 0 ELSE Len(Head(l).criteria) + EvalCriteriaCount(Tail(l))

\* the documents: one or two tests, at most MaxEvalTurns turns and
\* MaxEvalTotal criteria in all
EvalDocuments ==
    {<<>>}
        \cup {<<EvalTest(l)>> :
                 l \in {x \in EvalTurnLists : EvalCriteriaCount(x) <= MaxEvalTotal}}
        \cup {<<EvalTest(p[1]), EvalTest(p[2])>> :
                 p \in {q \in EvalTurnLists \X EvalTurnLists :
                           /\ Len(q[1]) + Len(q[2]) <= MaxEvalTurns
                           /\ EvalCriteriaCount(q[1] \o q[2]) <= MaxEvalTotal}}

CurTest == eval_data[eval_cursor[1]]
CurTurn == CurTest.turns[eval_cursor[2]]

\* lines 158-160: the text kept when the image file is missing
image_error(turn) ==
    IF turn.image = "missing" THEN "Missing image file" ELSE ""

\* Future.done()
FutureDone(c) == executor[c].state \in {"succeeded", "failed"}

\* line 255: future.result() returns or raises once the call has finished; the
\* faulty variant does not wait for it
ResultReadyAlways(c) == TRUE
ResultReady(c) == FutureDone(c)

Running == {c \in 1..Len(executor) : executor[c].state = "running"}

\* lines 329 and 331: the pool has parallelism workers, and the semaphore
\* parallelism permits, so a worker that takes a call also gets a permit
EvalWorkerFree == Cardinality(Running) < eval_parallelism

\* lines 254-271: the entry made of a future
FutureEntry(criterion, c) ==
    IF executor[c].state = "succeeded"
    THEN Entry(criterion, executor[c].result.score, executor[c].result.rationale)
    ELSE Entry(criterion, 0, "Unexpected judge error: boom")

InitEval ==
    /\ ParserIdle
    /\ EngineIdle
    /\ ReportIdle
    /\ eval_data \in EvalDocuments
    /\ eval_parallelism \in 1..MaxParallelism
    /\ eval_pc = "turn"
    /\ eval_cursor = <<1, 1>>
    /\ eval_idx = 1
    /\ image_b64 = FALSE
    /\ immediate_results = <<>>
    /\ futures = <<>>
    /\ eval_results = <<>>
    /\ eval_turns = <<>>
    /\ eval_tests = <<>>
    /\ executor = <<>>
    /\ progress_state = 0

\* lines 334-336 and 147-166, 196-197: evaluate_turn is called for the next
\* turn of the test and loads the image
EnterTurn ==
    /\ eval_pc = "turn"
    /\ eval_cursor[1] <= Len(eval_data)
    /\ eval_cursor[2] <= Len(CurTest.turns)
    /\ image_b64' = (CurTurn.image = "loads")
    /\ immediate_results' = <<>>
    /\ futures' = <<>>
    /\ eval_results' = <<>>
    /\ eval_idx' = 1
    /\ eval_pc' = "submit"
    /\ UNCHANGED <<parseVars, engineVars, callVars, reportVars, eval_data,
                   eval_parallelism, eval_cursor, eval_turns, eval_tests,
                   executor, progress_state>>

\* lines 199-238: one iteration of the first loop
SubmitStep ==
    /\ eval_pc = "submit"
    /\ eval_idx <= Len(CurTurn.criteria)
    /\ LET criterion == CurTurn.criteria[eval_idx]
       IN  IF CurTurn.image = "nopath"
           THEN /\ immediate_results' =
                       MapPut(immediate_results, eval_idx,
                              Entry(criterion, 0, "Missing PNG path."))
                /\ progress_state' = progress_state + 1
                /\ UNCHANGED <<futures, executor>>
           ELSE IF ~image_b64
           THEN /\ immediate_results' =
                       MapPut(immediate_results, eval_idx,
                              Entry(criterion, 0,
                                    IF image_error(CurTurn) # ""
                                    THEN image_error(CurTurn)
                                    ELSE "Missing image data."))
                /\ progress_state' = progress_state + 1
                /\ UNCHANGED <<futures, executor>>
           ELSE /\ executor' = Append(executor, Call(eval_cursor, eval_idx))
                /\ futures' = MapPut(futures, eval_idx, Len(executor) + 1)
                /\ UNCHANGED <<immediate_results, progress_state>>
    /\ eval_idx' = eval_idx + 1
    /\ UNCHANGED <<parseVars, engineVars, callVars, reportVars, eval_data,
                   eval_parallelism, eval_pc, eval_cursor, image_b64, eval_results,
                   eval_turns, eval_tests>>

\* lines 199 and 240: the first loop ends, the second begins
EndSubmit ==
    /\ eval_pc = "submit"
    /\ eval_idx > Len(CurTurn.criteria)
    /\ eval_pc' = "gather"
    /\ eval_idx' = 1
    /\ UNCHANGED <<parseVars, engineVars, callVars, reportVars, eval_data,
                   eval_parallelism, eval_cursor, image_b64, immediate_results,
                   futures, eval_results, eval_turns, eval_tests, executor,
                   progress_state>>

\* lines 240-271: one iteration of the second loop
GatherStep ==
    /\ eval_pc = "gather"
    /\ eval_idx <= Len(CurTurn.criteria)
    /\ LET criterion == CurTurn.criteria[eval_idx]
       IN  IF eval_idx \in DOMAIN immediate_results
           THEN eval_results' = Append(eval_results, immediate_results[eval_idx])
           ELSE IF eval_idx \notin DOMAIN futures
           THEN eval_results' = Append(eval_results, Entry(criterion, 0, "Missing judge future."))
           ELSE /\ ResultReady(futures[eval_idx])
                /\ eval_results' = Append(eval_results, FutureEntry(criterion, futures[eval_idx]))
    /\ eval_idx' = eval_idx + 1
    /\ UNCHANGED <<parseVars, engineVars, callVars, reportVars, eval_data,
                   eval_parallelism, eval_pc, eval_cursor, image_b64,
                   immediate_results, futures, eval_turns, eval_tests, executor,
                   progress_state>>

\* lines 273-279 and 335: evaluate_turn returns the turn with its judge entry
ReturnTurn ==
    /\ eval_pc = "gather"
    /\ eval_idx > Len(CurTurn.criteria)
    /\ eval_turns' =
           Append(eval_turns,
                  [criteria |-> CurTurn.criteria, image |-> CurTurn.image,
                   judge |-> [model |-> EvalModel, criteria |-> eval_results]])
    /\ eval_cursor' = <<eval_cursor[1], eval_cursor[2] + 1>>
    /\ eval_pc' = "turn"
    /\ UNCHANGED <<parseVars, engineVars, callVars, reportVars, eval_data,
                   eval_parallelism, eval_idx, image_b64, immediate_results, futures,
                   eval_results, eval_tests, executor, progress_state>>

\* line 351: the test's turns are done
EndEvalTest ==
    /\ eval_pc = "turn"
    /\ eval_cursor[1] <= Len(eval_data)
    /\ eval_cursor[2] > Len(CurTest.turns)
    /\ eval_tests' = Append(eval_tests, [turns |-> eval_turns])
    /\ eval_turns' = <<>>
    /\ eval_cursor' = <<eval_cursor[1] + 1, 1>>
    /\ UNCHANGED <<parseVars, engineVars, callVars, reportVars, eval_data,
                   eval_parallelism, eval_pc, eval_idx, image_b64, immediate_results,
                   futures, eval_results, executor, progress_state>>

\* lines 331 and 353-355: the with block ends once every call has finished,
\* and evaluate_dataset returns
EvalReturn ==
    /\ eval_pc = "turn"
    /\ eval_cursor[1] > Len(eval_data)
    /\ \A c \in 1..Len(executor) : FutureDone(c)
    /\ eval_pc' = "done"
    /\ UNCHANGED <<parseVars, engineVars, callVars, reportVars, eval_data,
                   eval_parallelism, eval_cursor, eval_idx, image_b64,
                   immediate_results, futures, eval_results, eval_turns, eval_tests,
                   executor, progress_state>>

\* lines 190-194: a free worker takes the oldest waiting call and starts
\* judge_fn
StartJudge(c) ==
    /\ executor[c].state = "queued"
    /\ \A d \in 1..(c - 1) : executor[d].state # "queued"
    /\ EvalWorkerFree
    /\ executor' = [executor EXCEPT ![c].state = "running"]
    /\ UNCHANGED <<parseVars, engineVars, callVars, reportVars, eval_data,
                   eval_parallelism, eval_pc, eval_cursor, eval_idx, image_b64,
                   immediate_results, futures, eval_results, eval_turns, eval_tests,
                   progress_state>>

\* lines 192-194 and 237, 319: judge_fn returns; the done callback counts the
\* completion
JudgeReturns(c) ==
    /\ executor[c].state = "running"
    /\ \E v \in Verdicts :
           executor' = [executor EXCEPT ![c].state = "succeeded",
                                        ![c].result = v,
                                        ![c].done_at = progress_state + 1]
    /\ progress_state' = progress_state + 1
    /\ UNCHANGED <<parseVars, engineVars, callVars, reportVars, eval_data,
                   eval_parallelism, eval_pc, eval_cursor, eval_idx, image_b64,
                   immediate_results, futures, eval_results, eval_turns, eval_tests>>

\* the same when judge_fn raises
JudgeRaises(c) ==
    /\ executor[c].state = "running"
    /\ executor' = [executor EXCEPT ![c].state = "failed",
                                    ![c].done_at = progress_state + 1]
    /\ progress_state' = progress_state + 1
    /\ UNCHANGED <<parseVars, engineVars, callVars, reportVars, eval_data,
                   eval_parallelism, eval_pc, eval_cursor, eval_idx, image_b64,
                   immediate_results, futures, eval_results, eval_turns, eval_tests>>

EvalWorker ==
    \E c \in 1..Len(executor) : StartJudge(c) \/ JudgeReturns(c) \/ JudgeRaises(c)

NextEval ==
    \/ EnterTurn
    \/ SubmitStep
    \/ EndSubmit
    \/ GatherStep
    \/ ReturnTurn
    \/ EndEvalTest
    \/ EvalReturn
    \/ EvalWorker

SpecEval == InitEval /\ [][NextEval]_vars

\* ------------------------------------- runs with an injected judge_fn
\* evaluate_dataset(data, dir, judge_fn=stub, batch_criteria=..., ...) on
\* documents whose images load
InitInjected ==
    /\ ParserIdle
    /\ ReportIdle
    /\ EvalIdle
    /\ data \in LoadableDocuments
    /\ batch_criteria \in BOOLEAN
    /\ parallelism \in 1..MaxParallelism
    /\ pc = "build"
    /\ cursor = <<0, 0>>
    /\ tests = <<>>
    /\ turns = <<>>
    /\ tasks = <<>>
    /\ turn_results_map = <<>>
    /\ future = <<>>
    /\ submitted = 0
    /\ handled = {}
    /\ parsing_errors = <<>>
    /\ progress_done = 0
    /\ latency_count = 0
    /\ calls = <<>>
    /\ writes = <<>>
    /\ errors_file = NotWritten
    /\ positional = PositionalParameters
    /\ judge_fn \in JudgeFns
    /\ model = JUDGE_MODEL
    /\ raised = <<>>
    /\ judge_model = <<>>

InjectedWorker ==
    \E t \in 1..Len(tasks) :
        StartCall(t) \/ CallReturns(t) \/ CallRaises(t) \/ StubReturns(t)

NextInjected ==
    \/ BuildTurn
    \/ EndTest
    \/ EndBuild
    \/ Submit
    \/ InjectedWorker
    \/ Collector
    \/ EndCollect
    \/ Assemble
    \/ WriteParsingErrors

SpecInjected == InitInjected /\ [][NextInjected]_vars

\* ================================================================ claims
Returned == pc = "returned"
TestIdx == 1..Len(data.tests)
TurnIdx(ti) == 1..Len(data.tests[ti].turns)
InputTurn(ti, ui) == data.tests[ti].turns[ui]
OutputCriteria(ti, ui) == tests[ti].turns[ui].judge.criteria
HandledFailed == {t \in handled : future[t].state = "failed"}
HandledUnparseable ==
    {t \in handled : future[t].state = "succeeded" /\ future[t].error.some}

\* C1: when evaluate_dataset has returned, the output holds every test and
\* turn of the input, and each turn's judge.criteria has exactly as many
\* entries as the turn has criteria.
C1_CriteriaCountPreserved ==
    Returned =>
        /\ Len(tests) = Len(data.tests)
        /\ \A ti \in TestIdx :
              /\ Len(tests[ti].turns) = Len(data.tests[ti].turns)
              /\ \A ui \in TurnIdx(ti) :
                    /\ tests[ti].turns[ui].judge.set
                    /\ Len(OutputCriteria(ti, ui)) = Len(InputTurn(ti, ui).criteria)

\* a run in batch mode has returned in which one call raised, one response was
\* unparseable, and a turn has two criteria
C1_Witness ==
    /\ Returned
    /\ batch_criteria
    /\ HandledFailed # {}
    /\ HandledUnparseable # {}
    /\ \E ti \in TestIdx : \E ui \in TurnIdx(ti) : Len(InputTurn(ti, ui).criteria) = 2

\* a single-mode run has returned with an image-load failure and a raised call
C1_WitnessSingle ==
    /\ Returned
    /\ ~batch_criteria
    /\ HandledFailed # {}
    /\ \E ti \in TestIdx : \E ui \in TurnIdx(ti) :
          InputTurn(ti, ui).load = "OSError"

\* The slot map as the task builder leaves it, read off the input document.
BuiltSlots ==
    [key \in UNION {{<<ti - 1, ui - 1>> : ui \in TurnIdx(ti)} : ti \in TestIdx} |->
        LET turn == InputTurn(key[1] + 1, key[2] + 1)
        IN  IF NoImage(turn) THEN NoImageResults(turn)
            ELSE [k \in 1..Len(turn.criteria) |-> None]]

\* The slot map of the run that processes the completions one after another
\* in submission order (what one worker and an in-order collector produce),
\* each task receiving the response it received in this run.
RECURSIVE InOrderSlots(_, _)
InOrderSlots(map, t) ==
    IF t > Len(tasks) THEN map ELSE InOrderSlots(SlotsAfter(map, t), t + 1)

\* C2: the output document does not depend on parallelism or completion
\* order: when evaluate_dataset has returned, every turn's judge.criteria
\* equals the outcome of the sequential in-order run on the same input with
\* the same response for each task.
C2_OutputIndependentOfSchedule ==
    Returned =>
        \A ti \in TestIdx : \A ui \in TurnIdx(ti) :
            OutputCriteria(ti, ui) =
                Finalized(InOrderSlots(BuiltSlots, 1)[<<ti - 1, ui - 1>>])

\* a run with two workers has returned in which the completion of a later
\* task of a turn was processed before that of an earlier task of the turn
\* (the parsing-error log shows the order) and a third call raised
C2_Witness ==
    /\ Returned
    /\ parallelism = 2
    /\ ~batch_criteria
    /\ \E t, u, v \in 1..Len(tasks) :
          /\ t < u
          /\ tasks[t].key = tasks[u].key
          /\ future[v].state = "failed"
          /\ parsing_errors = <<ProseFor(tasks[u]), ProseFor(tasks[t])>>

\* C3: at every moment the number of tasks whose external call is active is
\* at most parallelism.
C3_ActiveCallsBounded == Cardinality(InFlight) <= parallelism

\* two calls are active with parallelism 2 while a third task waits in the queue
C3_Witness ==
    /\ parallelism = 2
    /\ Cardinality(InFlight) = 2
    /\ Pending # {}

\* the slots task t is responsible for: positions of turn_results_map[key]
SlotsOfTask(t) ==
    IF tasks[t].batch THEN 1..Len(tasks[t].criteria)
    ELSE {tasks[t].criterion_index + 1}

Terminal == {"succeeded", "failed"}

\* one step of the future of a task, as the task state machine allows it:
\* not yet started (new, pending) -> inflight -> succeeded or failed
TaskStepAllowed(before, after) ==
    \/ after = before
    \/ before.state = "new" /\ after.state = "pending"
    \/ before.state = "pending" /\ after.state = "inflight"
    \/ before.state = "inflight" /\ after.state \in Terminal

\* C4: every task moves only along Pending -> InFlight -> {Succeeded, Failed};
\* its external call is invoked at most once; a terminal task never changes
\* again (no retry, no return to Pending); and once the completion of a task
\* (succeeded or failed) has been processed, every slot the task covers holds
\* an outcome.
C4_TaskLifecycle ==
    [][\A t \in 1..Len(future) :
          /\ TaskStepAllowed(future[t], future'[t])
          /\ tasks'[t] = tasks[t]
          /\ calls'[t] <= 1
          /\ (future'[t].state = "inflight" => calls'[t] = 1)
          /\ (t \in handled' =>
                /\ future'[t].state \in Terminal
                /\ \A k \in SlotsOfTask(t) :
                      turn_results_map'[tasks[t].key][k] # None)]_vars

\* the run has returned; one batch task covering two criteria failed, another
\* task succeeded
C4_Witness ==
    /\ Returned
    /\ \E t, u \in handled :
          /\ future[t].state = "failed"
          /\ tasks[t].batch
          /\ Len(tasks[t].criteria) = 2
          /\ future[u].state = "succeeded"

\* C5: if every external call eventually returns or raises, evaluate_dataset
\* eventually returns, and by then every task has been called exactly once,
\* is terminal and has had its completion processed.
C5_EventuallyReturns ==
    <>(/\ Returned
       /\ errors_file.written
       /\ \A t \in 1..Len(tasks) :
             /\ future[t].state \in Terminal
             /\ calls[t] = 1
             /\ t \in handled)

\* a run with three tasks and one worker has returned
C5_Witness ==
    /\ Returned
    /\ parallelism = 1
    /\ Len(tasks) = 3
    /\ handled = 1..3

Keys == DOMAIN turn_results_map
AfterDispatch == pc \in {"assemble", "write", "returned"}

\* C6: every result slot is assigned exactly once during a run, at build time
\* (no image) or by the completion of the one task responsible for it, and
\* its content never changes after that assignment: in every step no slot
\* has been assigned twice, a slot is unset exactly while it has not been
\* assigned, a set slot keeps its content, slots of turns without image are
\* assigned when the turn is built, and once the dispatcher has drained every
\* slot has been assigned once.
C6_SlotsWrittenOnce ==
    [][/\ \A key \in DOMAIN turn_results_map' :
            \A k \in 1..Len(turn_results_map'[key]) :
                /\ writes'[key][k] <= 1
                /\ (writes'[key][k] = 0 <=> turn_results_map'[key][k] = None)
                /\ (NoImage(InputTurn(key[1] + 1, key[2] + 1)) => writes'[key][k] = 1)
                /\ (AfterDispatch' => writes'[key][k] = 1)
       /\ \A key \in DOMAIN turn_results_map :
            /\ key \in DOMAIN turn_results_map'
            /\ Len(turn_results_map'[key]) = Len(turn_results_map[key])
            /\ \A k \in 1..Len(turn_results_map[key]) :
                  turn_results_map[key][k] # None =>
                      turn_results_map'[key][k] = turn_results_map[key][k]]_vars

\* a run has returned in which the slots of one turn were assigned at build
\* time (no image) and a slot of another turn by a completion
C6_Witness ==
    /\ Returned
    /\ \E key \in Keys : NoImage(InputTurn(key[1] + 1, key[2] + 1))
                         /\ Len(turn_results_map[key]) >= 1
    /\ handled # {}
    /\ \A key \in Keys : \A k \in 1..Len(writes[key]) : writes[key][k] = 1

\* C7: when the external call of a task raised, the call was made once (no
\* retry) and, once the completion is processed, every criterion the task is
\* responsible for (one in single mode, all of the turn in batch mode) has
\* score 0 and the rationale "Unexpected judge error: <exception text>".
C7_RaisedCallFailsItsCriteria ==
    \A t \in 1..Len(tasks) :
        future[t].state = "failed" =>
            /\ calls[t] = 1
            /\ tasks[t].batch =>
                  SlotsOfTask(t) = 1..Len(InputTurn(tasks[t].key[1] + 1,
                                                    tasks[t].key[2] + 1).criteria)
            /\ t \in handled =>
                  \A k \in SlotsOfTask(t) :
                      turn_results_map[tasks[t].key][k] =
                          [criterion |->
                              InputTurn(tasks[t].key[1] + 1,
                                        tasks[t].key[2] + 1).criteria[k],
                           score |-> 0,
                           rationale |-> <<"Unexpected judge error: ">> \o future[t].exc]

\* the completion of a raised batch call covering two criteria has been
\* processed
C7_Witness ==
    /\ batch_criteria
    /\ \E t \in handled :
          /\ future[t].state = "failed"
          /\ Len(tasks[t].criteria) = 2
          /\ future[t].exc = <<"boom">>

\* the outcome task u alone determines for its slot k
OwnOutcome(u, k) ==
    LET entries == EntriesOf(tasks[u], future[u])
    IN  IF tasks[u].batch THEN entries[k] ELSE entries[1]

Failing(t) ==
    \/ future[t].state = "failed"
    \/ future[t].state = "succeeded" /\ future[t].error.some

\* C8: the failure of a task (raised call or unparseable response) neither
\* stops the run nor touches a slot of another task: while a failing task's
\* completion has been processed, every slot of every other task is unset
\* (its task not yet processed) or holds the outcome of its own task, and the
\* main thread is never stuck before returning; at the return the document is
\* complete.
C8_FailureIsolated ==
    /\ \A t \in handled :
          Failing(t) =>
              \A u \in 1..Len(tasks) :
                  u # t =>
                      \A k \in SlotsOfTask(u) :
                          turn_results_map[tasks[u].key][k] =
                              IF u \in handled THEN OwnOutcome(u, k) ELSE None
    /\ (pc \in {"assemble", "write"} => ENABLED MainThread)
    /\ (pc = "collect" /\ Finished \ handled # {} => ENABLED Collector)
    /\ (Returned =>
          \A ti \in TestIdx : \A ui \in TurnIdx(ti) :
              /\ tests[ti].turns[ui].judge.set
              /\ \A k \in 1..Len(OutputCriteria(ti, ui)) :
                    OutputCriteria(ti, ui)[k] # MissingJudgeResult)

\* the run has returned; in single mode one task of a turn failed (raised)
\* and another task of the same turn holds the verdict it received
C8_Witness ==
    /\ Returned
    /\ ~batch_criteria
    /\ \E t, u \in handled :
          /\ t # u
          /\ tasks[t].key = tasks[u].key
          /\ future[t].state = "failed"
          /\ ~Failing(u)
          /\ turn_results_map[tasks[u].key][tasks[u].criterion_index + 1].score = 1

\* ------------------------------------------------ claims on the parsers
BatchDone == ppc = "batch"
ParsedItems == BatchResultsOf(praw.data).results
StructuredParse == BatchResultsOf(praw.data).exc = "none"

\* C9: parse_batch_judge_result(raw, expected) returns exactly expected
\* results for every raw text and every expected >= 0, and lets no exception
\* out.
C9_ExactlyExpectedResults ==
    BatchDone =>
        /\ pout.raised = "none"
        /\ Len(pout.results) = pexpected
        /\ DOMAIN pout.results = 1..pexpected

\* the batch parser has returned three results for a response holding one element
C9_Witness ==
    /\ BatchDone
    /\ pexpected = 3
    /\ StructuredParse
    /\ Len(ParsedItems) = 1
    /\ Len(pout.results) = 3

\* the batch parser has returned one result for a response holding three elements
C9_WitnessLonger ==
    /\ BatchDone
    /\ pexpected = 1
    /\ Len(ParsedItems) = 3
    /\ Len(pout.results) = 1

\* the batch parser has returned two results for a response that is no list
\* and no object
C9_WitnessScalar ==
    /\ BatchDone
    /\ pexpected = 2
    /\ praw.data.kind = "scalar"
    /\ Len(pout.results) = 2

\* the outcome made from one element of the response
OutcomeOf(item) ==
    IF item.dict THEN EntryOf(item) ELSE JudgeResult(0, PyStr(item.val))

\* the element carries the explicit integer index p; with bools set, a JSON
\* boolean counts as an integer too (true as 1, false as 0), as in Python
CarriesIndex(item, p, bools) ==
    /\ item.dict
    /\ item.index.t \in (IF bools THEN {"int", "bool"} ELSE {"int"})
    /\ item.index.n = p
\* the element carries no integer index at all
WithoutIndex(item, bools) ==
    ~(item.dict /\ item.index.t \in (IF bools THEN {"int", "bool"} ELSE {"int"}))

\* what the reconciliation rule prescribes for position p of a response:
\* carrying are the elements with index p, overflow those without index, and
\* open the positions up to p that no element carries
Prescribed(items, p, bools) ==
    LET carrying == {i \in 1..Len(items) : CarriesIndex(items[i], p, bools)}
        overflow == {i \in 1..Len(items) : WithoutIndex(items[i], bools)}
        open == {q \in 1..p :
                    \A i \in 1..Len(items) : ~CarriesIndex(items[i], q, bools)}
    IN  IF carrying # {}
        THEN OutcomeOf(items[CHOOSE i \in carrying : \A j \in carrying : j <= i])
        ELSE IF Cardinality(open) <= Cardinality(overflow)
        THEN OutcomeOf(items[CHOOSE i \in overflow :
                                Cardinality({j \in overflow : j <= i}) =
                                    Cardinality(open)])
        ELSE JudgeResult(0, <<"Missing batch result.">>)

\* C10: for a successfully parsed batch response the result at each position
\* p in 1..expected is the element carrying the explicit integer index p if
\* there is one (the last of them), otherwise the next unused element without
\* an integer index in arrival order, otherwise score 0 with the rationale
\* "Missing batch result.".
C10_ReconciliationRule ==
    BatchDone /\ StructuredParse =>
        \A p \in 1..pexpected :
            pout.results[p] = Prescribed(ParsedItems, p, FALSE)

\* What the code does instead (C10): the same rule with Python's notion of an
\* integer, under which an element with index true is taken for index 1.
C10_RuleWithBoolAsInt ==
    BatchDone /\ StructuredParse =>
        \A p \in 1..pexpected :
            pout.results[p] = Prescribed(ParsedItems, p, TRUE)

\* the batch parser has placed an element whose index is true at position 1,
\* ahead of an earlier element without index
C10_BoolIndexPlaced ==
    /\ BatchDone
    /\ StructuredParse
    /\ pexpected >= 1
    /\ Len(ParsedItems) = 2
    /\ WithoutIndex(ParsedItems[1], TRUE)
    /\ ParsedItems[2].index = JBool(TRUE)
    /\ pout.results[1] = OutcomeOf(ParsedItems[2])
    /\ pout.results[1] # OutcomeOf(ParsedItems[1])

\* the element omits its index: it is no object, or an object without the key
OmitsIndex(item) == ~item.dict \/ item.index = Absent

\* the response lists exactly expected elements in criterion order, each
\* omitting its index or carrying its own 1-based position
InOrderResponse ==
    /\ StructuredParse
    /\ Len(ParsedItems) = pexpected
    /\ \A i \in 1..Len(ParsedItems) :
          OmitsIndex(ParsedItems[i]) \/ ParsedItems[i].index = JInt(i)

\* C11: for a batch response that lists exactly expected elements in criterion
\* order, any subset of them omitting the index and the others carrying their
\* correct 1-based index, the result at position i is the outcome of the i-th
\* element of the response, for every i.
C11_OrderRecovered ==
    BatchDone /\ InOrderResponse =>
        /\ pout.error = NoError
        /\ \A i \in 1..pexpected : pout.results[i] = OutcomeOf(ParsedItems[i])

\* the batch parser has handled a response of three elements of which the
\* first and the third omit the index and differ, and the second carries 2
C11_Witness ==
    /\ BatchDone
    /\ InOrderResponse
    /\ pexpected = 3
    /\ OmitsIndex(ParsedItems[1])
    /\ ParsedItems[2].index = JInt(2)
    /\ OmitsIndex(ParsedItems[3])
    /\ OutcomeOf(ParsedItems[1]) # OutcomeOf(ParsedItems[3])
    /\ pout.results = [i \in 1..3 |-> OutcomeOf(ParsedItems[i])]

\* the positions of the returned list that hold the missing-result outcome
MissingPositions ==
    {p \in 1..Len(pout.results) :
        pout.results[p] = JudgeResult(0, <<"Missing batch result.">>)}

\* the response supplies fewer elements than expected
ShortResponse == StructuredParse /\ Len(ParsedItems) < pexpected

\* the positions no element of the response is matched to: no element carries
\* their index (as Python reads it) and the elements without index are used up
UnmatchedPositions ==
    {p \in 1..pexpected :
        /\ \A i \in 1..Len(ParsedItems) : ~CarriesIndex(ParsedItems[i], p, TRUE)
        /\ Cardinality({q \in 1..p : \A i \in 1..Len(ParsedItems) :
                            ~CarriesIndex(ParsedItems[i], q, TRUE)})
             > Cardinality({i \in 1..Len(ParsedItems) :
                              WithoutIndex(ParsedItems[i], TRUE)})}

\* C12 as stated: for a batch response that supplies fewer results than
\* expected, the tail positions past the supplied count hold the outcome
\* {score 0, rationale "Missing batch result."}.
C12_TailPositionsMissing ==
    BatchDone /\ ShortResponse =>
        /\ Len(pout.results) = pexpected
        /\ \A p \in (Len(ParsedItems) + 1)..pexpected : p \in MissingPositions

\* C12, amended: for a batch response that supplies fewer results than
\* expected the returned list still has expected entries; the positions that
\* hold {score 0, "Missing batch result."} are exactly the positions no
\* element is matched to, there are at least expected minus supplied of
\* them, and they are the tail positions when every element omits its index
\* or carries its own position.
C12_UnmatchedPositionsMissing ==
    BatchDone /\ ShortResponse =>
        /\ Len(pout.results) = pexpected
        /\ pout.error = NoError
        /\ MissingPositions = UnmatchedPositions
        /\ Cardinality(MissingPositions) >= pexpected - Len(ParsedItems)
        /\ (\A i \in 1..Len(ParsedItems) :
                OmitsIndex(ParsedItems[i]) \/ ParsedItems[i].index = JInt(i))
              => MissingPositions = (Len(ParsedItems) + 1)..pexpected

\* the batch parser has returned three results for one element without index:
\* the element at position 1, the missing-result outcome at 2 and 3
C12_Witness ==
    /\ BatchDone
    /\ pexpected = 3
    /\ praw.data.kind = "dict"
    /\ Len(ParsedItems) = 1
    /\ OmitsIndex(ParsedItems[1])
    /\ pout.results[1] = OutcomeOf(ParsedItems[1])
    /\ MissingPositions = {2, 3}

\* the batch parser has returned two results for one element carrying index 2:
\* the missing-result outcome is at position 1, not in the tail
C12_WitnessIndexedTail ==
    /\ BatchDone
    /\ pexpected = 2
    /\ Len(ParsedItems) = 1
    /\ StructuredParse
    /\ ParsedItems[1].index = JInt(2)
    /\ MissingPositions = {1}

\* the score values the claim lists: negative, fractional, an integer other
\* than 1, a non-numeric string
ListedScore(v) ==
    \/ v.t = "int" /\ v.n # 1
    \/ v.t = "float" /\ (v.n < 0 \/ v.n % 10 # 0)
    \/ v.t = "str" /\ ~IntOfText(v.s).ok

\* every score the parser returned is 0 or 1
ScoresZeroOrOne == \A p \in 1..Len(pout.results) : pout.results[p].score \in {0, 1}

SingleDone == ppc = "single"

\* C13: every score is exactly 0 or 1, and a parsed score that is negative,
\* fractional, an integer other than 1 or a non-numeric string produces 0, in
\* parse_judge_result and in parse_batch_judge_result.
C13_ListedScoresGiveZero ==
    /\ (SingleDone \/ BatchDone) => ScoresZeroOrOne
    /\ SingleDone /\ praw.data.kind = "dict" /\ ListedScore(praw.data.score) =>
          pout.results[1].score = 0
    /\ BatchDone /\ InOrderResponse =>
          \A i \in 1..pexpected :
              ParsedItems[i].dict /\ ListedScore(ParsedItems[i].score) =>
                  pout.results[i].score = 0

\* What the code does (C13): int() truncates, so the score is 1 exactly when
\* the value converts to an integer that is 1 (1, 1.5, " 1", true), else 0;
\* and every slot of the engine that is set holds score 0 or 1.
C13_ScoreIsOneIffTruncatesToOne ==
    /\ (SingleDone \/ BatchDone) => ScoresZeroOrOne
    /\ \A key \in DOMAIN turn_results_map :
          \A k \in 1..Len(turn_results_map[key]) :
              turn_results_map[key][k] # None =>
                  turn_results_map[key][k].score \in {0, 1}
    /\ SingleDone /\ praw.data.kind = "dict" /\ pout.error = NoError =>
          (pout.results[1].score = 1
              <=> PyInt(Get(praw.data.score, JInt(0))).n = 1)
    /\ BatchDone /\ InOrderResponse =>
          \A i \in 1..pexpected :
              ParsedItems[i].dict =>
                  (pout.results[i].score = 1
                      <=> /\ PyInt(Get(ParsedItems[i].score, JInt(0))).ok
                          /\ PyInt(Get(ParsedItems[i].score, JInt(0))).n = 1)

\* both parsers have returned score 1 for the fractional score 1.5
C13_FractionalGivesOne ==
    \/ /\ SingleDone
       /\ praw.data.score = JFloat(15)
       /\ pout.results[1].score = 1
    \/ /\ BatchDone
       /\ InOrderResponse
       /\ pexpected = 1
       /\ ParsedItems[1].score = JFloat(15)
       /\ pout.results[1].score = 1

\* the response cannot be parsed at all: no object and no list comes out of
\* it, or its results cannot be iterated
Unparseable == BatchResultsOf(praw.data).exc # "none"

\* C14: when a batch response cannot be parsed at all, every one of the
\* expected outcomes has score 0 and the rationale "Unparseable response: "
\* followed by the first 500 characters of the raw text, and the raw text
\* (whole) is reported as the parsing error.
C14_UnparseableBatch ==
    BatchDone /\ Unparseable =>
        /\ pout.raised = "none"
        /\ Len(pout.results) = pexpected
        /\ \A p \in 1..pexpected :
              /\ pout.results[p].score = 0
              /\ pout.results[p].rationale =
                    <<"Unparseable response: ">>
                    \o [i \in 1..Min(Len(praw.text), 500) |-> praw.text[i]]
        /\ pout.error = [some |-> TRUE, raw |-> praw.text]

\* the batch parser has returned three outcomes for a text of 501 characters:
\* each rationale carries 500 of them, the reported error all 501
C14_Witness ==
    /\ BatchDone
    /\ Unparseable
    /\ pexpected = 3
    /\ Len(praw.text) = 501
    /\ Len(pout.results) = 3
    /\ Len(pout.results[3].rationale) = 501
    /\ Len(pout.error.raw) = 501

\* the batch parser has returned the fallback for a response that is an
\* object whose results cannot be iterated
C14_WitnessBadResults ==
    /\ BatchDone
    /\ praw.data.reskind = "noniter"
    /\ pexpected = 2
    /\ pout.error.some
    /\ pout.results[2].rationale = <<"Unparseable response: ", "{", "}">>

\* ------------------------------------------- claims on the error log
IsPrefix(s, t) == Len(s) <= Len(t) /\ \A i \in 1..Len(s) : s[i] = t[i]

\* the call of task t returned a text that failed structured parsing
ResponseUnparseable(t) ==
    /\ future[t].state = "succeeded"
    /\ IF tasks[t].batch
       THEN BatchResultsOf(future[t].raw.data).exc # "none"
       ELSE VerdictExc(future[t].raw.data) # "none"

\* the call of task t returned a parseable batch response that left a
\* position to the missing-result outcome
OnlyMissingResults(t) ==
    /\ future[t].state = "succeeded"
    /\ tasks[t].batch
    /\ ~ResponseUnparseable(t)
    /\ \E k \in 1..Len(future[t].result) : future[t].result[k] = MissingBatchResult

LogPositions(log, text) == {i \in 1..Len(log) : log[i] = text}

\* C15: the parsing-error log only grows by appending during a run, and when
\* the run ends it holds exactly one entry, the raw text, per task whose
\* response failed structured parsing (one for a batch task, however many
\* criteria it covers) and no entry for any other task (succeeded, raised,
\* only missing batch results); the side artifact holds the log.
C15_ParsingErrorLog ==
    [][/\ IsPrefix(parsing_errors, parsing_errors')
       /\ Len(parsing_errors') <= Len(parsing_errors) + 1
       /\ Returned' =>
            /\ Len(parsing_errors') =
                  Cardinality({t \in 1..Len(tasks') : ResponseUnparseable(t)'})
            /\ \A t \in 1..Len(tasks') :
                  Cardinality(LogPositions(parsing_errors', future'[t].raw.text)) =
                      IF ResponseUnparseable(t)' THEN 1 ELSE 0
            /\ errors_file' = [written |-> TRUE, content |-> parsing_errors']]_vars

\* a batch run has returned in which the response for a task covering two
\* criteria was unparseable and the call of another task raised: one entry
C15_Witness ==
    /\ Returned
    /\ batch_criteria
    /\ Len(parsing_errors) = 1
    /\ Len(errors_file.content) = 1
    /\ \E t, u \in 1..Len(tasks) :
          /\ ResponseUnparseable(t)
          /\ Len(tasks[t].criteria) = 2
          /\ future[u].state = "failed"

\* a batch run has returned in which one task only had missing batch results
\* and no response was unparseable: the log is empty
C15_WitnessMissingOnly ==
    /\ Returned
    /\ batch_criteria
    /\ parsing_errors = <<>>
    /\ errors_file = [written |-> TRUE, content |-> <<>>]
    /\ \E t \in 1..Len(tasks) : OnlyMissingResults(t)

\* ------------------------------------------ claims on the task builder
\* sub occurs in s as a contiguous piece
Contains(s, sub) ==
    \E i \in 1..(Len(s) - Len(sub) + 1) : SubSeq(s, i, i + Len(sub) - 1) = sub

TurnOf(key) == InputTurn(key[1] + 1, key[2] + 1)

\* the turn gives a path and the loader raised for it
Unreadable(turn) ==
    turn.pngPath # <<>> /\ turn.load \in {"FileNotFoundError", "OSError", "Exception"}

TasksOfKey(key) == {t \in 1..Len(tasks) : tasks[t].key = key}

\* the image path as the loader was given it: the results directory joined
\* with the turn's path without its leading "./"
ResolvedPath(turn) == <<"eval-results", "/">> \o SubSeq(turn.pngPath, 3, Len(turn.pngPath))

\* C16: a turn whose image path is given but cannot be read gets no task, so
\* no external judging call is made for it, and every criterion of the turn
\* gets score 0 with a rationale that mentions the image path; the output
\* document carries these results.
C16_UnreadableImage ==
    \A key \in DOMAIN turn_results_map :
        Unreadable(TurnOf(key)) =>
            /\ TasksOfKey(key) = {}
            /\ Len(turn_results_map[key]) = Len(TurnOf(key).criteria)
            /\ \A k \in 1..Len(turn_results_map[key]) :
                  /\ turn_results_map[key][k].criterion = TurnOf(key).criteria[k]
                  /\ turn_results_map[key][k].score = 0
                  /\ Contains(turn_results_map[key][k].rationale,
                              ResolvedPath(TurnOf(key)))
            /\ Returned =>
                  OutputCriteria(key[1] + 1, key[2] + 1) = turn_results_map[key]

\* a run has returned whose only external call was for the turn that loaded,
\* the other turn's file being missing: its criterion has score 0 and the
\* rationale "Missing image file: eval-results/a.png"
C16_Witness ==
    /\ Returned
    /\ Len(tasks) = 1
    /\ calls = <<1>>
    /\ \E key \in DOMAIN turn_results_map :
          /\ TurnOf(key).load = "FileNotFoundError"
          /\ TasksOfKey(key) = {}
          /\ OutputCriteria(key[1] + 1, key[2] + 1) =
                <<[criterion |-> <<"c", "1">>, score |-> 0,
                   rationale |-> <<"Missing image file: ", "eval-results", "/", "a.png">>]>>

\* the text of the exception the loader raised for the turn
ExcTextOf(turn) == <<"[", turn.load, "]">>

\* a turn without image path has no task and its slots hold score 0 and the
\* rationale "Missing PNG path.", which no turn with a path gets
NoPathTurnFilled(key) ==
    TurnOf(key).pngPath = <<>> =>
        /\ TasksOfKey(key) = {}
        /\ \A k \in 1..Len(turn_results_map[key]) :
              /\ turn_results_map[key][k] =
                    [criterion |-> TurnOf(key).criteria[k], score |-> 0,
                     rationale |-> <<"Missing PNG path.">>]
              /\ \A other \in DOMAIN turn_results_map :
                    TurnOf(other).pngPath # <<>> =>
                        \A j \in 1..Len(turn_results_map[other]) :
                            turn_results_map[other][j].rationale #
                                turn_results_map[key][k].rationale

\* C17 as stated: a turn with no image path gets no task and its slots are
\* filled at build time with score 0 and a rationale of its own; for a path
\* that is given but unreadable the rationale preserves the text of the
\* underlying I/O error.
C17_ErrorTextPreserved ==
    \A key \in DOMAIN turn_results_map :
        /\ NoPathTurnFilled(key)
        /\ Unreadable(TurnOf(key)) =>
              \A k \in 1..Len(turn_results_map[key]) :
                  Contains(turn_results_map[key][k].rationale, ExcTextOf(TurnOf(key)))

\* C17, amended: a turn with no image path gets no task and its slots are
\* filled at build time with score 0 and "Missing PNG path.", a rationale no
\* turn with a path gets; when the loader raises an OSError other than
\* FileNotFoundError, or any other exception, the rationale carries the
\* exception's text; for FileNotFoundError it is "Missing image file: <path>"
\* without the exception's text.
C17_ErrorTextPreservedUnlessMissing ==
    \A key \in DOMAIN turn_results_map :
        /\ NoPathTurnFilled(key)
        /\ Unreadable(TurnOf(key)) =>
              \A k \in 1..Len(turn_results_map[key]) :
                  IF TurnOf(key).load = "FileNotFoundError"
                  THEN turn_results_map[key][k].rationale =
                          <<"Missing image file: ">> \o ResolvedPath(TurnOf(key))
                  ELSE Contains(turn_results_map[key][k].rationale,
                                ExcTextOf(TurnOf(key)))

\* the build loop has just filled the slot of a turn without path and that of
\* a turn whose read failed with an OSError; nothing has been dispatched
C17_Witness ==
    /\ pc = "build"
    /\ tasks = <<>>
    /\ \E key, other \in DOMAIN turn_results_map :
          /\ TurnOf(key).pngPath = <<>>
          /\ Len(turn_results_map[key]) = 1
          /\ turn_results_map[key][1].rationale = <<"Missing PNG path.">>
          /\ TurnOf(other).load = "OSError"
          /\ Len(turn_results_map[other]) = 1
          /\ turn_results_map[other][1].rationale =
                <<"Failed to read image: ", "eval-results", "/", "a.png", " (",
                  "[", "OSError", "]", ")">>

\* the image of the turn loads
Loads(turn) == turn.pngPath # <<>> /\ turn.load = "ok"

\* the tasks carrying the key, in the order of the task list
RECURSIVE TaskSeqOfKey(_, _)
TaskSeqOfKey(key, t) ==
    IF t > Len(tasks) THEN <<>>
    ELSE (IF tasks[t].key = key THEN <<tasks[t]>> ELSE <<>>)
         \o TaskSeqOfKey(key, t + 1)

RECURSIVE SumOf(_)
SumOf(seq) == IF seq = <<>> THEN 0 ELSE Head(seq) + SumOf(Tail(seq))

\* in batch mode one task carries all criteria of the turn
OneBatchTask(key) ==
    /\ Len(TaskSeqOfKey(key, 1)) = 1
    /\ TaskSeqOfKey(key, 1)[1].batch
    /\ TaskSeqOfKey(key, 1)[1].criteria = TurnOf(key).criteria

\* in single mode there is one task per criterion, in criterion order
OneTaskPerCriterion(key) ==
    /\ Len(TaskSeqOfKey(key, 1)) = Len(TurnOf(key).criteria)
    /\ \A k \in 1..Len(TurnOf(key).criteria) :
          /\ ~TaskSeqOfKey(key, 1)[k].batch
          /\ TaskSeqOfKey(key, 1)[k].criterion = TurnOf(key).criteria[k]
          /\ TaskSeqOfKey(key, 1)[k].criterion_index = k - 1

\* when the run has returned one external call was made per task built
OneCallPerTask == Returned => calls = [t \in 1..Len(tasks) |-> 1]

\* C18 as stated: for every turn whose image loads the task builder creates
\* exactly one task carrying all criteria of the turn in batch mode, and
\* exactly one task per criterion in single mode; the number of external
\* judging calls made in a run equals the number of tasks built.
C18_TasksPerTurn ==
    /\ \A key \in DOMAIN turn_results_map :
          Loads(TurnOf(key)) =>
              IF batch_criteria THEN OneBatchTask(key) ELSE OneTaskPerCriterion(key)
    /\ OneCallPerTask
    /\ Returned => SumOf(calls) = Len(tasks)

\* C18, amended: for every turn whose image loads and that has at least one
\* criterion the task builder creates exactly one task carrying all criteria
\* in batch mode; in single mode, and for a turn without criteria in either
\* mode, it creates one task per criterion (none for no criteria); the
\* number of external judging calls made in a run equals the number of tasks.
C18_TasksPerTurnWithCriteria ==
    /\ \A key \in DOMAIN turn_results_map :
          Loads(TurnOf(key)) =>
              IF batch_criteria /\ TurnOf(key).criteria # <<>>
              THEN OneBatchTask(key)
              ELSE OneTaskPerCriterion(key)
    /\ OneCallPerTask
    /\ Returned => SumOf(calls) = Len(tasks)

\* a batch run has returned that built one task for a turn with two criteria
\* and one for a turn with one criterion, and made two calls
C18_Witness ==
    /\ Returned
    /\ batch_criteria
    /\ Len(tasks) = 2
    /\ SumOf(calls) = 2
    /\ \E key \in DOMAIN turn_results_map :
          /\ Len(TurnOf(key).criteria) = 2
          /\ OneBatchTask(key)

\* a single-mode run has returned that built two tasks for a turn with two
\* criteria and a third for another turn, and made three calls
C18_WitnessSingle ==
    /\ Returned
    /\ ~batch_criteria
    /\ Len(tasks) = 3
    /\ SumOf(calls) = 3
    /\ \E key \in DOMAIN turn_results_map :
          /\ Len(TurnOf(key).criteria) = 2
          /\ OneTaskPerCriterion(key)

\* C19: a turn with zero criteria has no result slots and no task in either
\* mode, whether or not its image loads; no task of the run (so no call)
\* belongs to it, and its judge result in the output has an empty criteria
\* list.
C19_ZeroCriteriaTurnSkipped ==
    \A key \in DOMAIN turn_results_map :
        TurnOf(key).criteria = <<>> =>
            /\ turn_results_map[key] = <<>>
            /\ TasksOfKey(key) = {}
            /\ Len(tasks) =
                  Cardinality({t \in 1..Len(tasks) :
                                  TurnOf(tasks[t].key).criteria # <<>>})
            /\ Returned =>
                  /\ tests[key[1] + 1].turns[key[2] + 1].judge.set
                  /\ tests[key[1] + 1].turns[key[2] + 1].judge.model = JUDGE_MODEL
                  /\ OutputCriteria(key[1] + 1, key[2] + 1) = <<>>

\* a batch run has returned with a turn without criteria whose image loads;
\* the one task and the one call of the run belong to the other turn
C19_Witness ==
    /\ Returned
    /\ batch_criteria
    /\ Len(tasks) = 1
    /\ calls = <<1>>
    /\ \E key \in DOMAIN turn_results_map :
          /\ TurnOf(key).criteria = <<>>
          /\ Loads(TurnOf(key))
          /\ OutputCriteria(key[1] + 1, key[2] + 1) = <<>>

\* a run has returned with a turn without criteria whose image cannot be read
C19_WitnessUnreadable ==
    /\ Returned
    /\ Len(tasks) = 1
    /\ \E key \in DOMAIN turn_results_map :
          /\ TurnOf(key).criteria = <<>>
          /\ Unreadable(TurnOf(key))
          /\ OutputCriteria(key[1] + 1, key[2] + 1) = <<>>

\* ------------------------------------------------ claims on the unit test
\* the call as the test makes it
CalledAsTest == positional = 3 /\ judge_fn = "stub_bare"

\* the call is over: evaluate_dataset has returned or raised
CallOver == pc \in {"returned", "raised"}

\* every criterion of every turn of the output carries the stub's verdict
OutputCarriesStubVerdict ==
    /\ Len(tests) = Len(data.tests)
    /\ \A ti \in TestIdx : \A ui \in TurnIdx(ti) :
          OutputCriteria(ti, ui) =
              [k \in 1..Len(InputTurn(ti, ui).criteria) |->
                  [criterion |-> InputTurn(ti, ui).criteria[k], score |-> 1,
                   rationale |-> <<"ok">>]]

\* C20: when evaluate_dataset is called as the test calls it (data, a model
\* name and the results directory as positional arguments, judge_fn a stub
\* returning JudgeResult(1, "ok"), an image loader that succeeds), the call
\* returns and every criterion of every turn in the output carries score 1
\* and rationale "ok".
C20_TestCallCarriesVerdict ==
    CalledAsTest /\ CallOver => Returned /\ OutputCarriesStubVerdict

\* What the code does for the test's call (C20): the third positional
\* argument is refused with a TypeError before the body runs; no document is
\* produced.
C20_TestCallRaises ==
    positional = 3 =>
        /\ pc \in {"call", "raised"}
        /\ tests = <<>>
        /\ pc = "raised" =>
              raised =
                  <<"evaluate_dataset() takes 2 positional arguments but ", "3",
                    " positional arguments (and 2 keyword-only arguments) were given">>

\* With the model passed by keyword the test's stub still fails (C20): its
\* bare JudgeResult cannot be unpacked, and every criterion gets score 0 and
\* "Unexpected judge error: ..."; only a stub returning the pair
\* (JudgeResult, None) gets its verdict into the output.
C20_KeywordCall ==
    positional = 2 /\ CallOver =>
        /\ Returned
        /\ judge_fn = "stub_tuple" => OutputCarriesStubVerdict
        /\ judge_fn = "stub_bare" =>
              \A ti \in TestIdx : \A ui \in TurnIdx(ti) :
                  \A k \in 1..Len(OutputCriteria(ti, ui)) :
                      OutputCriteria(ti, ui)[k] =
                          [criterion |-> InputTurn(ti, ui).criteria[k], score |-> 0,
                           rationale |->
                              <<"Unexpected judge error: ",
                                "cannot unpack non-iterable JudgeResult object">>]

\* the test's call has raised for a document of one test, one turn and one
\* criterion
C20_TestCallHasRaised ==
    /\ CalledAsTest
    /\ pc = "raised"
    /\ Len(data.tests[1].turns) = 1
    /\ Len(data.tests[1].turns[1].criteria) = 1
    /\ data.tests[2].turns = <<>>

\* the keyword call with a stub returning a pair has returned the verdict for
\* a turn with two criteria
C20_KeywordCallReturned ==
    /\ positional = 2
    /\ judge_fn = "stub_tuple"
    /\ Returned
    /\ OutputCarriesStubVerdict
    /\ \E ti \in TestIdx : \E ui \in TurnIdx(ti) : Len(OutputCriteria(ti, ui)) = 2

\* ------------------------------------------------- claims on telemetry
\* the tasks that wait, whose call is active, and that are over, as the
\* executor's futures show them (the code keeps no counter for the first two)
PendingCount == Cardinality({t \in 1..Len(future) : future[t].state \in {"new", "pending"}})
InFlightCount == Cardinality(InFlight)

\* how many slots have been assigned so far
RECURSIVE AssignedIn(_)
AssignedIn(keys) ==
    IF keys = {} THEN 0
    ELSE LET key == CHOOSE k \in keys : TRUE
         IN  SumOf(writes[key]) + AssignedIn(keys \ {key})

HandledSucceeded == {t \in handled : future[t].state = "succeeded"}

\* C22: for every dispatched task the call is started once and a latency
\* sample is recorded after it whether the call returns or raises; so when
\* the run ends the number of latency samples equals the number of
\* dispatched tasks and no task is in flight.
C22_LatencySamplePerTask ==
    /\ latency_count <= Cardinality(handled)
    /\ \A t \in handled : calls[t] = 1
    /\ Returned =>
          /\ InFlight = {}
          /\ latency_count = Len(tasks)

\* What the code does (C22): the duration reaches latency_stats only through
\* future.result(), so a sample is recorded exactly for the processed tasks
\* whose call returned, none for a call that raised; no call is in flight
\* when the run ends.
C22_LatencySamplePerReturnedCall ==
    /\ latency_count = Cardinality(HandledSucceeded)
    /\ \A t \in handled : calls[t] = 1
    /\ Returned => InFlight = {}

\* a run of one task has returned whose call raised: no latency sample
C22_RaisedCallLeavesNoSample ==
    /\ Returned
    /\ Len(tasks) = 1
    /\ future[1].state = "failed"
    /\ latency_count = 0

\* ------------------------------------------------ claims on concurrency
\* the step changes shared engine state: result slots, the progress counter,
\* the latency samples or the parsing-error log
SharedStateChanges ==
    \/ turn_results_map' # turn_results_map
    \/ progress_done' # progress_done
    \/ latency_count' # latency_count
    \/ parsing_errors' # parsing_errors

\* C23: no two mutations of shared engine state overlap: every step that
\* writes a result slot, updates the progress counter or the latency samples,
\* or appends to the parsing-error log is a step of the single coordinating
\* (main) thread and not of a worker, and it processes at most one task's
\* completion.
C23_SharedStateOwnedByMainThread ==
    [][SharedStateChanges =>
          /\ MainThread
          /\ ~Worker
          /\ future' = future \/ pc = "build"
          /\ Cardinality(handled' \ handled) <= 1]_vars

\* with two workers, the main thread has processed the completion of one
\* task while the call of another is active and a third has finished
C23_Witness ==
    /\ parallelism = 2
    /\ Cardinality(handled) = 1
    /\ InFlight # {}
    /\ Finished \ handled # {}
    /\ progress_done = 1
    /\ latency_count = 1

\* --------------------------------------------------- claims on the phases
AllKeys == UNION {{<<ti - 1, ui - 1>> : ui \in TurnIdx(ti)} : ti \in TestIdx}

\* the task list and the slot map are complete: every turn has been visited
BuildComplete ==
    /\ pc # "build"
    /\ cursor = <<Len(data.tests), 0>>
    /\ Len(tests) = Len(data.tests)
    /\ DOMAIN turn_results_map = AllKeys

\* a task has been handed to the executor or its call has been started
Dispatching == \E t \in 1..Len(tasks) : future[t].state # "new" \/ calls[t] > 0

\* the assembler has read slots: a turn of the output carries its judge result
Assembling ==
    \/ AfterDispatch
    \/ \E ti \in 1..Len(tests) : \E ui \in 1..Len(tests[ti].turns) :
          tests[ti].turns[ui].judge.set

\* C24: the three phases of a run are strictly ordered: no task is submitted
\* and no external call is made before the task list and the slot map are
\* completely built, neither changes afterwards, and the assembler reads no
\* slot before every submitted task is terminal and processed.
C24_PhasesOrdered ==
    [][/\ Dispatching' => BuildComplete'
       /\ BuildComplete =>
            /\ tasks' = tasks
            /\ DOMAIN turn_results_map' = DOMAIN turn_results_map
       /\ Assembling' =>
            /\ BuildComplete'
            /\ submitted' = Len(tasks')
            /\ \A t \in 1..Len(tasks') :
                  /\ future'[t].state \in Terminal
                  /\ t \in handled']_vars

\* the assembler has run after three tasks were built, called and processed,
\* one of them failed
C24_Witness ==
    /\ pc = "write"
    /\ Len(tasks) = 3
    /\ handled = 1..3
    /\ \E t \in 1..3 : future[t].state = "failed"
    /\ \A ti \in 1..Len(tests) : \A ui \in 1..Len(tests[ti].turns) :
          tests[ti].turns[ui].judge.set

\* ------------------------------------------------ claims on the assembler
SlotsRead == ResultsList(turn_results_map, <<0, 0>>)
Assembled(ti, ui) == tests[ti].turns[ui].judge.criteria

\* C25: when the assembler finds a slot still unset, the output entry for that
\* position is {criterion: "", score: 0, rationale: "Missing judge result."};
\* slots that were set are copied unchanged, position by position.
C25_UnsetSlotMissingResult ==
    pc \in {"write", "returned"} =>
        /\ tests[1].turns[1].judge.set
        /\ Len(Assembled(1, 1)) = Len(SlotsRead)
        /\ \A k \in 1..Len(SlotsRead) :
              IF SlotsRead[k] = None
              THEN Assembled(1, 1)[k] =
                     [criterion |-> <<>>, score |-> 0,
                      rationale |-> <<"Missing judge result.">>]
              ELSE Assembled(1, 1)[k] = SlotsRead[k]

\* assembled: a set slot between two unset ones
C25_Witness ==
    /\ pc = "returned"
    /\ Len(SlotsRead) = 3
    /\ SlotsRead[1] = None
    /\ SlotsRead[2] # None
    /\ SlotsRead[3] = None
    /\ Len(Assembled(1, 1)) = 3

\* C26: the parsing-error log is written to its side artifact exactly once per
\* run, after all tasks have completed, and it is written also when it is
\* empty (as an empty list): the artifact changes only in the writing step,
\* which finds it unwritten and every task terminal and processed, and stores
\* the whole log; a run that has returned has written it.
C26_LogWrittenOnceAtEnd ==
    [][/\ errors_file' # errors_file => WriteParsingErrors
       /\ WriteParsingErrors =>
            /\ errors_file = NotWritten
            /\ errors_file' = [written |-> TRUE, content |-> parsing_errors]
            /\ parsing_errors' = parsing_errors
            /\ submitted = Len(tasks)
            /\ \A t \in 1..Len(tasks) :
                  future[t].state \in Terminal /\ t \in handled
       /\ Returned' => errors_file'.written
       /\ ~Returned' => errors_file' = NotWritten]_vars

\* a run over two tasks has returned without any parsing failure: the
\* artifact holds the empty list
C26_Witness ==
    /\ Returned
    /\ Len(tasks) >= 2
    /\ \A t \in 1..Len(tasks) : future[t].state = "succeeded" /\ ~future[t].error.some
    /\ parsing_errors = <<>>
    /\ errors_file.written
    /\ errors_file.content = <<>>

\* --------------------------------------------- claims on the documents
\* the output holds, in the input's order, a copy of every test and turn with
\* every field of the input and a judge result
OutputKeepsInput ==
    /\ Len(tests) = Len(data.tests)
    /\ \A ti \in TestIdx :
          /\ tests[ti].fullName = data.tests[ti].fullName
          /\ Len(tests[ti].turns) = Len(data.tests[ti].turns)
          /\ \A ui \in TurnIdx(ti) :
                /\ tests[ti].turns[ui].turn = InputTurn(ti, ui)
                /\ tests[ti].turns[ui].judge.set
                /\ "judge" \notin DOMAIN InputTurn(ti, ui)

\* C27: evaluate_dataset never mutates its input document: no step changes the
\* input tests, turns and criteria lists (no judge field is added to an input
\* turn); the judge results are attached only to copies in the output, which
\* keep every other field and the order of tests and turns.
C27_InputNotMutated ==
    [][/\ data' = data
       /\ Returned' => OutputKeepsInput']_vars

\* a run over two tests with different turns has returned; a call was made
C27_Witness ==
    /\ Returned
    /\ Len(data.tests) = 2
    /\ data.tests[1].turns # <<>>
    /\ data.tests[2].turns # <<>>
    /\ data.tests[1].turns # data.tests[2].turns
    /\ tasks # <<>>
    /\ \A ti \in TestIdx : \A ui \in TurnIdx(ti) : tests[ti].turns[ui].judge.set

\* the tasks built for a turn
TasksAt(ti, ui) == {t \in 1..Len(tasks) : tasks[t].key = <<ti - 1, ui - 1>>}

\* C28: in the output document every turn's judge.model and the top-level
\* judge_model are the same single model identifier, the one the run was
\* called with, including turns that made no external call.
C28_OneModelIdentifier ==
    IF pc \in {"write", "returned"}
    THEN /\ judge_model = model
         /\ \A ti \in 1..Len(tests) : \A ui \in 1..Len(tests[ti].turns) :
               /\ tests[ti].turns[ui].judge.set
               /\ tests[ti].turns[ui].judge.model = model
    ELSE /\ judge_model = <<>>
         /\ \A ti \in 1..Len(tests) : \A ui \in 1..Len(tests[ti].turns) :
               ~tests[ti].turns[ui].judge.set

\* a run called with model "stub-model" has returned; one turn was judged by
\* a call, another made no call
C28_Witness ==
    /\ Returned
    /\ model = <<"stub-model">>
    /\ judge_model = <<"stub-model">>
    /\ \E ti, tj \in TestIdx : \E ui \in TurnIdx(ti) : \E uj \in TurnIdx(tj) :
          /\ TasksAt(ti, ui) # {}
          /\ \A t \in TasksAt(ti, ui) : calls[t] = 1
          /\ TasksAt(tj, uj) = {}
          /\ tests[ti].turns[ui].judge.model = <<"stub-model">>
          /\ tests[tj].turns[uj].judge.model = <<"stub-model">>

\* ------------------------------------- claims on the two parsers together
\* the response {"results": [verdict]}: a verdict object as the only result
AsOnlyResult(raw) ==
    Raw(raw.text,
        DataResults(<<Item(raw.data.score, raw.data.rationale, Absent)>>))

SameOutcome(single, batch) ==
    /\ batch.raised = "none"
    /\ Len(batch.results) = 1
    /\ single.results[1].score = batch.results[1].score
    /\ single.results[1].rationale = batch.results[1].rationale
    /\ single.error = batch.error

\* a response that is no JSON value at all, or a JSON value without keys
NotAnObject(raw) == raw.data.kind \in {"fail", "scalar"}

\* a verdict object whose score int() accepts (an absent score counts as 0)
ConvertibleVerdict(raw) ==
    /\ raw.data.kind = "dict"
    /\ raw.data.reskind = "absent"
    /\ PyInt(Get(raw.data.score, JInt(0))).ok

\* C29 as stated: for every raw response, parse_judge_result(raw) yields the
\* same score, rationale and parsing-error outcome as the single element of
\* parse_batch_judge_result(raw, 1).
C29_SingleIsBatchOfOne ==
    SingleDone => SameOutcome(pout, parse_batch_judge_result(praw, 1))

\* C29: parse_judge_result(raw) yields the same score, rationale and
\* parsing-error outcome as the single element of
\* parse_batch_judge_result(raw, 1) for every raw response that is not a JSON
\* object or list (both give the "Unparseable response" entry and report the
\* raw text), and, for a verdict object whose score converts to an integer,
\* the same as the single element of parse_batch_judge_result on the response
\* that holds this object as its only result.
C29_SingleIsBatchOnOnlyResult ==
    SingleDone =>
        /\ NotAnObject(praw) =>
              /\ SameOutcome(pout, parse_batch_judge_result(praw, 1))
              /\ pout.error = ErrorOf(praw.text)
        /\ ConvertibleVerdict(praw) =>
              /\ SameOutcome(pout, parse_batch_judge_result(AsOnlyResult(praw), 1))
              /\ pout.error = NoError

\* parse_judge_result has parsed a verdict object with a score other than 0
\* and 1 and a padded rationale
C29_Witness ==
    /\ SingleDone
    /\ praw.data = DataVerdict(JInt(2), JStr(<<" ", "c", " ">>))
    /\ pout.results = <<JudgeResult(0, <<"c">>)>>
    /\ pout.error = NoError

\* parse_judge_result has parsed prose
C29_WitnessProse ==
    /\ SingleDone
    /\ praw = Raw(ProseText, DataFail)
    /\ pout.error = ErrorOf(ProseText)

\* ------------------------------------------------ claims on a hung call
Hung == {t \in 1..Len(future) : future[t].state = "hung"}

\* every slot a finished task is responsible for has been assigned once
SlotsWritten(t) ==
    LET slots == turn_results_map[tasks[t].key]
        mine == IF tasks[t].batch THEN 1..Len(slots)
                ELSE {tasks[t].criterion_index + 1}
    IN  \A k \in mine : slots[k] # None /\ writes[tasks[t].key][k] = 1

OthersDone ==
    /\ pc = "collect"
    /\ \A t \in (1..Len(tasks)) \ Hung :
          /\ calls[t] = 1
          /\ future[t].state \in Terminal
          /\ t \in handled
          /\ SlotsWritten(t)

\* C30: there is no timeout or cancellation: if one external call never
\* returns it occupies exactly one of the parallelism worker slots forever
\* (it stays hung, the other calls in flight number at most parallelism - 1);
\* with parallelism >= 2 every other task is still started and, when its call
\* returns or raises, its slots are written; evaluate_dataset itself never
\* returns (it stays in the executor block, the hung task unprocessed).
C30_HungCallBlocksOneSlot ==
    /\ [](Hung # {} =>
            /\ Cardinality(Hung) = 1
            /\ Cardinality(InFlight \ Hung) <= parallelism - 1
            /\ pc \in {"submit", "collect"}
            /\ ~Returned
            /\ Hung \cap handled = {})
    /\ [][Hung \subseteq Hung']_vars
    /\ (Hung # {} /\ parallelism >= 2) ~> OthersDone

\* the first of three calls hangs with two workers; the other two tasks have
\* been called and processed, the main thread waits in as_completed
C30_Witness ==
    /\ Hung = {1}
    /\ parallelism = 2
    /\ Len(tasks) = 3
    /\ handled = {2, 3}
    /\ OthersDone

\* ------------------------------------------------- claims on the report
RECURSIVE AllTurns(_)
AllTurns(tests_) ==
    IF tests_ = <<>> THEN <<>> ELSE Head(tests_).turns \o AllTurns(Tail(tests_))

ReportTurns == AllTurns(report_data.tests)

\* the positions of a piece in the page
PositionsOf(piece) == {i \in 1..Len(html) : html[i] = piece}

\* the j-th turn block of the page: from its opening piece up to the next one
NthPosition(piece, j) ==
    LET ps == PositionsOf(piece)
    IN  CHOOSE i \in ps : Cardinality({h \in ps : h <= i}) = j
BlockOfTurn(j) ==
    LET ps == PositionsOf(TurnOpen)
        start == NthPosition(TurnOpen, j)
        later == {h \in ps : h > start}
    IN  {i \in start..Len(html) : \A h \in later : i < h}

NoCriteriaText == "<div class='no-criteria'>No criteria defined for this turn.</div>"
MissingImagesText == "<div class='missing-section'><strong>Missing images:</strong><ul>"

EmptyCriteria(turn) == ~turn.judge.present \/ turn.judge.criteria = <<>>
ImageFileMissing(turn) == turn.pngPath = <<".", "/", "m", "&", ".png">>

\* C31: render_html shows the marker "No criteria defined for this turn." for
\* every turn whose judge criteria list is empty (in that turn's block, and in
\* no other), and shows a "Missing images:" section exactly when at least one
\* turn has a pngPath whose file does not exist under the results directory;
\* the section lists one item per such turn.
C31_ReportMarkers ==
    rpc = "html" =>
        /\ Cardinality(PositionsOf(TurnOpen)) = Len(ReportTurns)
        /\ \A j \in 1..Len(ReportTurns) :
              (\E i \in BlockOfTurn(j) : html[i] = NoCriteriaText)
                  <=> EmptyCriteria(ReportTurns[j])
        /\ (PositionsOf(MissingImagesText) # {})
              <=> (\E j \in 1..Len(ReportTurns) : ImageFileMissing(ReportTurns[j]))
        /\ Cardinality(PositionsOf(MissingImagesText)) <= 1
        /\ Cardinality(PositionsOf("<li>")) =
              Cardinality({j \in 1..Len(ReportTurns) : ImageFileMissing(ReportTurns[j])})

\* the page of the unit test's document is rendered: one turn without
\* criteria whose image is missing; beside it a judged turn whose image exists
C31_Witness ==
    /\ rpc = "html"
    /\ Len(ReportTurns) = 2
    /\ ReportTurns[1].judge = Judged(<<>>)
    /\ ImageFileMissing(ReportTurns[1])
    /\ ReportTurns[2].judge = Judged(<<PassResult>>)
    /\ ReportTurns[2].pngPath = SomePath
    /\ PositionsOf(MissingImagesText) # {}
    /\ \E i \in BlockOfTurn(1) : html[i] = NoCriteriaText

\* the results whose score is at least 1
PassingResults ==
    {Result(<<"A exists">>, JInt(1), Absent), Result(<<"C">>, JInt(2), Absent)}

AllAtLeastOne(turn) ==
    \A k \in 1..Len(turn.judge.criteria) : turn.judge.criteria[k] \in PassingResults

Successful(turn) == EmptyCriteria(turn) \/ AllAtLeastOne(turn)

\* the scenario of a test: the head of its hierarchy, else its name
NameOf(test) ==
    IF test.hierarchy = <<"A">> THEN "A"
    ELSE IF test.fullName \in {"A", "B"} THEN test.fullName
    ELSE "Unknown scenario"

ScenarioNames == {NameOf(report_data.tests[ti]) : ti \in 1..Len(report_data.tests)}
TestsOf(name) ==
    {ti \in 1..Len(report_data.tests) : NameOf(report_data.tests[ti]) = name}

\* C33: compute_metrics counts every turn with an empty judge criteria list
\* as a successful turn, counts a turn with criteria as successful exactly
\* when every criterion score is at least 1, and keeps turn_success <=
\* turn_total and scenario_success <= scenario_total; a test with no turns
\* never makes its scenario successful: a scenario counts as successful
\* exactly when each of its tests has turns and all of them are successful.
C33_MetricsCounts ==
    rpc = "metrics" =>
        /\ metrics.turn_total = Len(ReportTurns)
        /\ metrics.turn_success =
              Cardinality({j \in 1..Len(ReportTurns) : Successful(ReportTurns[j])})
        /\ metrics.turn_success <= metrics.turn_total
        /\ metrics.scenario_total = Cardinality(ScenarioNames)
        /\ metrics.scenario_success <= metrics.scenario_total
        /\ metrics.scenario_success =
              Cardinality({n \in ScenarioNames :
                  \A ti \in TestsOf(n) :
                      /\ report_data.tests[ti].turns # <<>>
                      /\ \A ui \in 1..Len(report_data.tests[ti].turns) :
                            Successful(report_data.tests[ti].turns[ui])})

\* the metrics of a document whose first test has no turns and whose second
\* test, of the same scenario, has a turn without criteria and a turn with a
\* score of 2: two successful turns, no successful scenario
C33_Witness ==
    /\ rpc = "metrics"
    /\ report_data.tests[1].turns = <<>>
    /\ NameOf(report_data.tests[2]) = "A"
    /\ Len(report_data.tests[2].turns) = 2
    /\ report_data.tests[2].turns[1].judge = Judged(<<>>)
    /\ report_data.tests[2].turns[2].judge = Judged(<<TwoResult>>)
    /\ metrics.turn_success = 2
    /\ metrics.scenario_total = 1
    /\ metrics.scenario_success = 0

\* ------------------------------------------------ claims on the routing
\* task t comes before task u in the document: by test, then turn, then
\* criterion
DocumentOrder(t, u) ==
    \/ tasks[t].key[1] < tasks[u].key[1]
    \/ /\ tasks[t].key[1] = tasks[u].key[1]
       /\ tasks[t].key[2] < tasks[u].key[2]
    \/ /\ tasks[t].key = tasks[u].key
       /\ tasks[t].criterion_index < tasks[u].criterion_index

\* the positions of its turn a task stands for: all of them for a batch task,
\* else the rank of the task among the tasks of its turn
OwnPositions(t) ==
    IF tasks[t].batch
    THEN 1..Len(InputTurn(tasks[t].key[1] + 1, tasks[t].key[2] + 1).criteria)
    ELSE {Cardinality({u \in 1..t : tasks[u].key = tasks[t].key})}

SubmittedTasks == {t \in 1..Len(tasks) : future[t].state # "new"}

\* C32: tasks are submitted to the worker pool in document order (by test
\* index, then turn index, then criterion index): the task list is in that
\* order and the submitted tasks are always an initial piece of it; and in
\* whatever order completions are processed, the completion of a task writes
\* the positions of its own turn it stands for and no other slot.
C32_SubmittedInOrderRoutedByPosition ==
    [][/\ \A t, u \in 1..Len(tasks') : t < u => DocumentOrder(t, u)'
       /\ SubmittedTasks' = 1..submitted'
       /\ \A t \in handled' \ handled :
            /\ \A k \in OwnPositions(t) :
                  /\ turn_results_map[tasks[t].key][k] = None
                  /\ turn_results_map'[tasks[t].key][k] # None
            /\ \A key \in DOMAIN turn_results_map :
                  \A k \in 1..Len(turn_results_map[key]) :
                      turn_results_map'[key][k] # turn_results_map[key][k]
                          => key = tasks[t].key /\ k \in OwnPositions(t)]_vars

\* with two workers the three single tasks of two turns were submitted in
\* order; the completion of the last task has been processed first and has
\* written the second slot of its turn, the first is still unset
C32_Witness ==
    /\ parallelism = 2
    /\ ~batch_criteria
    /\ Len(tasks) = 3
    /\ submitted = 3
    /\ tasks[1].key # tasks[2].key
    /\ tasks[2].key = tasks[3].key
    /\ handled = {3}
    /\ turn_results_map[tasks[3].key][1] = None
    /\ turn_results_map[tasks[3].key][2] # None

\* C34: once the dispatch loop has ended no slot of any turn is unset, for
\* every completion order and every mix of failures; hence the sentinel
\* rationale "Missing judge result." never appears in an output document,
\* whose turns have one result per criterion.
C34_NoUnsetSlotAfterDispatch ==
    /\ AfterDispatch =>
          /\ DOMAIN turn_results_map = AllKeys
          /\ \A key \in DOMAIN turn_results_map :
                /\ Len(turn_results_map[key]) =
                      Len(InputTurn(key[1] + 1, key[2] + 1).criteria)
                /\ \A k \in 1..Len(turn_results_map[key]) :
                      turn_results_map[key][k] # None
    /\ \A ti \in 1..Len(tests) : \A ui \in 1..Len(tests[ti].turns) :
          tests[ti].turns[ui].judge.set =>
              /\ Len(tests[ti].turns[ui].judge.criteria) =
                    Len(InputTurn(ti, ui).criteria)
              /\ \A k \in 1..Len(tests[ti].turns[ui].judge.criteria) :
                    tests[ti].turns[ui].judge.criteria[k].rationale
                        # <<"Missing judge result.">>

\* a batch run with two workers has returned: a call covering two criteria
\* raised and the response of another was unparseable
C34_Witness ==
    /\ Returned
    /\ batch_criteria
    /\ parallelism = 2
    /\ Len(tasks) = 2
    /\ future[1].state = "failed"
    /\ Len(tasks[1].criteria) = 2
    /\ future[2].state = "succeeded"
    /\ future[2].error.some
    /\ parsing_errors # <<>>
    /\ \A ti \in 1..Len(tests) : \A ui \in 1..Len(tests[ti].turns) :
          tests[ti].turns[ui].judge.set

\* ------------------------------------- claims on what the parser drops
IntIndexed(item) == ~WithoutIndex(item, TRUE)

\* element i of the response is not used for any position in 1..expected:
\* its integer index lies outside 1..expected, or a later element has the
\* same index, or it has no integer index and the open positions (those no
\* element carries) are used up by the unindexed elements before it
OutOfRange(items, i, expected) ==
    IntIndexed(items[i]) /\ items[i].index.n \notin 1..expected
Superseded(items, i) ==
    /\ IntIndexed(items[i])
    /\ \E j \in (i + 1)..Len(items) :
          IntIndexed(items[j]) /\ items[j].index.n = items[i].index.n
Surplus(items, i, expected) ==
    LET open == {q \in 1..expected :
                    \A j \in 1..Len(items) : ~CarriesIndex(items[j], q, TRUE)}
        before == {j \in 1..i : WithoutIndex(items[j], TRUE)}
    IN  WithoutIndex(items[i], TRUE) /\ Cardinality(before) > Cardinality(open)

Unused(items, expected) ==
    {i \in 1..Len(items) :
        \/ OutOfRange(items, i, expected)
        \/ Superseded(items, i)
        \/ Surplus(items, i, expected)}

\* the response without the elements at the given places
RECURSIVE Without(_, _, _)
Without(items, places, i) ==
    IF i > Len(items) THEN <<>>
    ELSE (IF i \in places THEN <<>> ELSE <<items[i]>>) \o Without(items, places, i + 1)

ResponseWithout(raw, places) ==
    [raw EXCEPT !.data.results = Without(raw.data.results, places, 1)]

\* C35: in parse_batch_judge_result every response element that is not used
\* for a position in 1..expected is dropped without effect on other
\* positions: the results are those of the response without the elements
\* whose integer index lies outside 1..expected, without every element that a
\* later element with the same index replaces, and without the unindexed
\* elements beyond the open positions; left alone, such elements give only
\* "Missing batch result.".
C35_UnusedElementsDropped ==
    BatchDone /\ StructuredParse =>
        /\ pout.results =
              parse_batch_judge_result(
                  ResponseWithout(praw, Unused(ParsedItems, pexpected)),
                  pexpected).results
        /\ Unused(ParsedItems, pexpected) = 1..Len(ParsedItems) =>
              \A p \in 1..pexpected :
                  pout.results[p] = JudgeResult(0, <<"Missing batch result.">>)

\* one result was expected; of two elements with index 1 the later one was
\* kept, the element with index 3 was dropped
C35_Witness ==
    /\ BatchDone
    /\ pexpected = 1
    /\ ParsedItems = <<Item(JInt(1), JStr(<<"a">>), JInt(1)),
                       Item(JInt(0), JStr(<<"b">>), JInt(1)),
                       Item(JInt(1), JStr(<<"a">>), JInt(3))>>
    /\ pout.results = <<JudgeResult(0, <<"b">>)>>

\* two results were expected; the element with index 3 filled no position and
\* was not used as an unindexed element, the third unindexed element was
\* discarded
C35_WitnessSurplus ==
    /\ BatchDone
    /\ pexpected = 2
    /\ ParsedItems = <<Item(JInt(1), JStr(<<"a">>), JInt(3)),
                       Item(JInt(0), JStr(<<"b">>), Absent),
                       Item(JInt(0), JStr(<<"b">>), Absent)>>
    /\ pout.results = <<JudgeResult(0, <<"b">>), JudgeResult(0, <<"b">>)>>

\* ------------------------------------------- claims on the progress count
\* the number of criteria a step accounts for: those of the turn without
\* image it has built, those of the task whose completion it has processed
CriteriaOfStep ==
    IF pc = "build" /\ cursor' # cursor /\ cursor'[1] = cursor[1]
    THEN LET turn == InputTurn(cursor[1] + 1, cursor[2] + 1)
         IN  IF turn.pngPath = <<>> \/ turn.load # "ok"
             THEN Len(turn.criteria) ELSE 0
    ELSE SumOf([i \in 1..Len(tasks) |->
                  IF i \in handled' \ handled
                  THEN (IF tasks[i].batch
                        THEN Len(InputTurn(tasks[i].key[1] + 1,
                                           tasks[i].key[2] + 1).criteria)
                        ELSE 1)
                  ELSE 0])

RECURSIVE CriteriaIn(_)
CriteriaIn(tests_) ==
    IF tests_ = <<>> THEN 0
    ELSE SumOf([ui \in 1..Len(Head(tests_).turns) |->
                  Len(Head(tests_).turns[ui].criteria)])
         + CriteriaIn(Tail(tests_))

\* C36: the progress counter done is incremented exactly once per criterion:
\* every step adds the number of criteria it accounts for (at build time
\* those of a turn without image, at a completion one for a single task and
\* the turn's criteria count for a batch task, on success and on failure
\* alike) and nothing else changes it; it is never greater than the total
\* number of criteria and equals that total when evaluate_dataset returns.
C36_DoneOncePerCriterion ==
    [][/\ progress_done' = progress_done + CriteriaOfStep
       /\ progress_done' <= CriteriaIn(data.tests)
       /\ Returned' => progress_done' = CriteriaIn(data.tests)]_vars

\* a batch run over three criteria has returned: a turn without image was
\* counted when it was built, the call for a turn with two criteria raised
C36_Witness ==
    /\ Returned
    /\ batch_criteria
    /\ progress_done = 3
    /\ Len(tasks) = 1
    /\ Len(tasks[1].criteria) = 2
    /\ future[1].state = "failed"
    /\ \E ti \in TestIdx : \E ui \in TurnIdx(ti) :
          InputTurn(ti, ui).pngPath = <<>> /\ Len(InputTurn(ti, ui).criteria) = 1

\* the positions of the turns the tasks are built for, in task order, read
\* off the document: a turn with image gives one task per criterion, or one
\* batch task if it has criteria
RECURSIVE PositionsFrom(_, _)
PositionsFrom(ti, ui) ==
    IF ti > Len(data.tests) THEN <<>>
    ELSE IF ui > Len(data.tests[ti].turns) THEN PositionsFrom(ti + 1, 1)
    ELSE LET turn == data.tests[ti].turns[ui]
             n == Len(turn.criteria)
             count == IF turn.pngPath = <<>> \/ turn.load # "ok" THEN 0
                      ELSE IF batch_criteria /\ n > 0 THEN 1 ELSE n
         IN  [i \in 1..count |-> <<ti - 1, ui - 1>>] \o PositionsFrom(ti, ui + 1)

\* the turns the build loop has visited
VisitedTurns ==
    {key \in AllKeys :
        \/ key[1] < cursor[1]
        \/ key[1] = cursor[1] /\ key[2] < cursor[2]}

\* C37: result routing keys are the positions of the test and of the turn in
\* the document, not the turn's turnIndex field: every visited turn has a
\* slot array of its own under its position, as long as its criteria list,
\* and the completion of a task changes slots of the turn the task was built
\* for and of no other, even when two turns of one test carry the same
\* turnIndex value or none.
C37_RoutedByPosition ==
    [][/\ DOMAIN turn_results_map' = VisitedTurns'
       /\ \A key \in DOMAIN turn_results_map' :
            Len(turn_results_map'[key]) =
                Len(InputTurn(key[1] + 1, key[2] + 1).criteria)
       /\ \A t \in handled' \ handled :
            /\ turn_results_map'[PositionsFrom(1, 1)[t]]
                  # turn_results_map[PositionsFrom(1, 1)[t]]
            /\ \A key \in DOMAIN turn_results_map :
                  turn_results_map'[key] # turn_results_map[key]
                      => key = PositionsFrom(1, 1)[t]]_vars

\* a test has two turns with the same turnIndex and one criterion each; the
\* completion of the second turn's task has been processed, the first turn's
\* slot is still unset
C37_Witness ==
    /\ \E ti \in TestIdx :
          /\ Len(data.tests[ti].turns) = 2
          /\ InputTurn(ti, 1).turnIndex = InputTurn(ti, 2).turnIndex
          /\ Len(tasks) = 2
          /\ handled = {2}
          /\ turn_results_map[<<ti - 1, 0>>] = <<None>>
          /\ Len(turn_results_map[<<ti - 1, 1>>]) = 1
          /\ turn_results_map[<<ti - 1, 1>>][1] # None

\* a run has returned over a test whose first turn has no turnIndex (and no
\* image) and whose second turn has turnIndex 0
C37_WitnessNoIndex ==
    /\ Returned
    /\ \E ti \in TestIdx :
          /\ Len(data.tests[ti].turns) = 2
          /\ InputTurn(ti, 1).turnIndex = 0 - 1
          /\ InputTurn(ti, 2).turnIndex = 0
          /\ Len(InputTurn(ti, 1).criteria) = 1
          /\ Len(InputTurn(ti, 2).criteria) = 2

\* ------------------------------------------- claims on the injected judge
\* what a future holds when the provider answered or failed, when the
\* injected judge_fn was called
ProviderOutcome(t) ==
    \/ future[t].state = "failed" /\ future[t].exc = <<"boom">>
    \/ /\ future[t].state = "succeeded"
       /\ future[t].raw.text # <<>>
       /\ \A k \in 1..Len(future[t].result) : future[t].result[k].rationale # <<"ok">>
InjectedOutcome(t) ==
    \/ /\ judge_fn = "stub_tuple"
       /\ future[t].state = "succeeded"
       /\ future[t].raw.text = <<>>
       /\ future[t].result = <<JudgeResult(1, <<"ok">>)>>
    \/ /\ judge_fn = "stub_bare"
       /\ future[t].state = "failed"
       /\ future[t].exc = <<"cannot unpack non-iterable JudgeResult object">>

\* C39: in batch mode evaluate_dataset never invokes the supplied judge_fn:
\* every batch task calls the built-in provider call directly, so an injected
\* judging function only affects turns dispatched in single mode; with an
\* injected judge_fn the future of a finished batch task holds what the
\* provider gave, that of a finished single task what judge_fn gave.
C39_BatchIgnoresJudgeFn ==
    \A t \in 1..Len(tasks) :
        /\ tasks[t].batch = batch_criteria
        /\ future[t].state \in Terminal =>
              IF batch_criteria
              THEN ProviderOutcome(t) /\ ~InjectedOutcome(t)
              ELSE InjectedOutcome(t) /\ ~ProviderOutcome(t)

\* a batch run with the stub judge_fn of the unit test has returned; the
\* provider answered one task and failed for the other
C39_Witness ==
    /\ Returned
    /\ batch_criteria
    /\ judge_fn = "stub_tuple"
    /\ Len(tasks) = 2
    /\ future[1].state = "succeeded"
    /\ ~future[1].error.some
    /\ future[2].state = "failed"
    /\ ProviderOutcome(1)
    /\ ProviderOutcome(2)

\* ------------------------------------------------ claims on visual_eval
EvalInTurn == eval_pc \in {"submit", "gather"}

\* the calls of the turn at pos
CallsOf(pos) == {c \in 1..Len(executor) : executor[c].pos = pos}

\* the evaluated turns so far, with their positions
EvaluatedAt(ti, tu) ==
    IF ti <= Len(eval_tests) THEN eval_tests[ti].turns[tu] ELSE eval_turns[tu]
EvaluatedPositions ==
    {p \in (1..Len(eval_data)) \X (1..MaxEvalTurns + 1) :
        \/ p[1] <= Len(eval_tests) /\ p[2] <= Len(eval_tests[p[1]].turns)
        \/ p[1] = Len(eval_tests) + 1 /\ p[2] <= Len(eval_turns)}

\* C38: in visual_eval.evaluate_dataset turns are processed one after another:
\* every judge call of a turn has finished before any call of the next turn is
\* submitted, so the calls running at once are at most the smaller of
\* parallelism and the criteria count of the current turn, and each turn's
\* results are listed in criterion order whatever order its calls finish in.
C38_TurnsOneAfterAnother ==
    /\ \A c \in 1..Len(executor) : \A d \in 1..Len(executor) :
           c < d /\ executor[c].pos # executor[d].pos => FutureDone(c)
    /\ \A c \in 1..Len(executor) :
           ~(EvalInTurn /\ executor[c].pos = eval_cursor) => FutureDone(c)
    /\ Cardinality(Running) <=
           (IF EvalInTurn THEN Min(eval_parallelism, Len(CurTurn.criteria)) ELSE 0)
    /\ \A p \in EvaluatedPositions :
           LET given == eval_data[p[1]].turns[p[2]]
               listed == EvaluatedAt(p[1], p[2]).judge.criteria
           IN  /\ Len(listed) = Len(given.criteria)
               /\ \A k \in 1..Len(listed) :
                      /\ listed[k].criterion = given.criteria[k]
                      /\ given.image = "loads" =>
                             \E c \in CallsOf(p) :
                                 /\ executor[c].idx = k
                                 /\ FutureDone(c)
                                 /\ listed[k] = FutureEntry(given.criteria[k], c)

\* a run has returned in which the second call of a two-criteria turn finished
\* before the first, with a different verdict, and in which a later turn had
\* a call of its own
C38_Witness ==
    /\ eval_pc = "done"
    /\ eval_parallelism = 2
    /\ Len(executor) = 3
    /\ executor[1].pos = executor[2].pos
    /\ executor[3].pos # executor[1].pos
    /\ executor[2].done_at < executor[1].done_at
    /\ executor[1].state = "succeeded"
    /\ executor[1].result.score = 1
    /\ executor[2].state = "succeeded"
    /\ executor[2].result.score = 0
    /\ EvaluatedAt(executor[1].pos[1], executor[1].pos[2]).judge.criteria[1].score = 1
    /\ EvaluatedAt(executor[1].pos[1], executor[1].pos[2]).judge.criteria[2].score = 0

====
